---- MODULE Spec2Model ----
(***************************************************************************)
(* Projection & Edge Computation Engine of the sports-betting dashboard:   *)
(* the two Snapshot Builders (workers/build_projection_snapshots.py,       *)
(* workers/build_prop_feed_snapshots.py), the reference-data readers       *)
(* (services/data_cache.py) and the Projection Builder                     *)
(* (services/projections.py), over a store of tables reached through the   *)
(* generic query interface.                                                *)
(*                                                                         *)
(* Conventions.  A Python Optional is a sequence of length 0 (None) or 1.  *)
(* A Python str that the code only tests for truthiness and equality is a  *)
(* TLA+ string, "" standing for both None and the empty string.  A         *)
(* timestamp string, which the code compares with > , is the sequence of   *)
(* its character codes, compared lexicographically as Python does.  A      *)
(* Python float is the exact rational <<numerator, denominator>> in lowest *)
(* terms; round() is round-half-even on that rational.                     *)
(***************************************************************************)
EXTENDS Integers, Sequences, FiniteSets, TLC

\* ------------------------------------------------------------ optionals
None == <<>>
Some(x) == <<x>>
IsNone(o) == o = <<>>
Val(o) == o[1]
\* the list holding an Optional's value, if it has one
OptSeq(o) == IF IsNone(o) THEN <<>> ELSE <<Val(o)>>

\* ------------------------------------------------------------ rationals
Abs(x) == IF x < 0 THEN -x ELSE x

RECURSIVE GCD(_, _)
GCD(a, b) == IF b = 0 THEN a ELSE GCD(b, a % b)

Rat(n, d) ==
    LET g == GCD(Abs(n), Abs(d))
        s == IF d < 0 THEN -1 ELSE 1
    IN  <<(s * n) \div g, (s * d) \div g>>

RInt(n) == <<n, 1>>
RZero == <<0, 1>>
ROne == <<1, 1>>
RAdd(x, y) == Rat(x[1] * y[2] + y[1] * x[2], x[2] * y[2])
RSub(x, y) == Rat(x[1] * y[2] - y[1] * x[2], x[2] * y[2])
RMul(x, y) == Rat(x[1] * y[1], x[2] * y[2])
RDiv(x, y) == Rat(x[1] * y[2], x[2] * y[1])
RLt(x, y) == x[1] * y[2] < y[1] * x[2]
RLe(x, y) == x[1] * y[2] <= y[1] * x[2]
RMax(x, y) == IF RLt(x, y) THEN y ELSE x
RMin(x, y) == IF RLt(y, x) THEN y ELSE x

\* floor of a rational
RFloor(x) == x[1] \div x[2]

\* Python round(x, 0) on the exact value: nearest integer, ties to even
RoundHalfEven(x) ==
    LET f == RFloor(x)
        twice == RSub(RMul(RInt(2), x), RInt(2 * f))   \* 2 * (x - f) in [0, 2)
    IN  IF RLt(twice, ROne) THEN f
        ELSE IF RLt(ROne, twice) THEN f + 1
        ELSE IF f % 2 = 0 THEN f ELSE f + 1

\* Python round(x, 1) and round(x, 2)
Round1(x) == Rat(RoundHalfEven(RMul(x, RInt(10))), 10)
Round2(x) == Rat(RoundHalfEven(RMul(x, RInt(100))), 100)

\* ------------------------------------------------------------ strings compared with >
\* Python  a > b  on str: lexicographic on code points
StrGreater(a, b) ==
    \E i \in 1..Len(a) :
        /\ \A j \in 1..(i - 1) : j <= Len(b) /\ a[j] = b[j]
        /\ (i > Len(b) \/ a[i] > b[i])

\* datetime.isoformat() of an instant of the model clock: a fixed-width
\* two-digit rendering, so that the string order is the time order
IsoFormat(t) == <<t \div 10, t % 10>>

\* Python  x or ""  on an Optional timestamp string
OrEmpty(o) == IF IsNone(o) THEN <<>> ELSE Val(o)

\* ------------------------------------------------------------ dicts
\* A Python dict: a function on its key set
EmptyDict == [x \in {} |-> None]
DictSet(d, k, v) == [x \in (DOMAIN d) \cup {k} |-> IF x = k THEN v ELSE d[x]]
DictGet(d, k) == IF k \in DOMAIN d THEN Some(d[k]) ELSE None

\* Python truthiness of an id / name string (None and "" are both falsy)
Truthy(s) == s # ""

\* float(x) of a JSON number: the same number, in canonical form
Float(x) == Rat(x[1], x[2])

\* ------------------------------------------------------------ deduplication
\* build_projection_snapshots._dedupe_props, line 59 (and
\* build_prop_feed_snapshots._dedupe_props, line 67): the quote replaces the
\* stored one when its timestamp string is strictly greater
\* the comparison turned around (for comparison)
IsEarlier(created_at, stored) == StrGreater(stored, created_at)

IsLater(created_at, stored) == StrGreater(created_at, stored)

ProjKey(prop) == <<prop.player_id, prop.game_id, prop.prop_type>>

\* build_projection_snapshots._dedupe_props: `latest` is an insertion-ordered
\* dict (order, latest); bovada_lines is overwritten by every Bovada quote
\* with a line, in list order
ProjDedupeStep(acc, prop) ==
    IF ~(Truthy(prop.player_id) /\ Truthy(prop.game_id) /\ Truthy(prop.prop_type))
    THEN acc
    ELSE LET key == ProjKey(prop)
             created_at == OrEmpty(prop.created_at)
             isNew == key \notin DOMAIN acc.latest
             replace == isNew \/ IsLater(created_at, OrEmpty(acc.latest[key].created_at))
         IN  [latest |-> IF replace THEN DictSet(acc.latest, key, prop) ELSE acc.latest,
              order |-> IF isNew THEN Append(acc.order, key) ELSE acc.order,
              bovada_lines |->
                  IF prop.book = "Bovada" /\ ~IsNone(prop.line)
                  THEN DictSet(acc.bovada_lines, key, Val(prop.line))
                  ELSE acc.bovada_lines]

RECURSIVE ProjDedupeFrom(_, _, _)
ProjDedupeFrom(props, i, acc) ==
    IF i > Len(props) THEN acc
    ELSE ProjDedupeFrom(props, i + 1, ProjDedupeStep(acc, props[i]))

ProjDedupe(props) ==
    ProjDedupeFrom(props, 1, [latest |-> EmptyDict, order |-> <<>>, bovada_lines |-> EmptyDict])

FeedKey(prop) ==
    <<prop.player_id, prop.game_id, prop.prop_type, Float(Val(prop.line)), prop.book>>

\* build_prop_feed_snapshots._dedupe_props
FeedDedupeStep(acc, prop) ==
    IF ~(Truthy(prop.player_id) /\ Truthy(prop.game_id) /\ Truthy(prop.prop_type)
         /\ Truthy(prop.book)) \/ IsNone(prop.line)
    THEN acc
    ELSE LET key == FeedKey(prop)
             created_at == OrEmpty(prop.created_at)
             isNew == key \notin DOMAIN acc.latest
             replace == isNew \/ IsLater(created_at, OrEmpty(acc.latest[key].created_at))
         IN  [latest |-> IF replace THEN DictSet(acc.latest, key, prop) ELSE acc.latest,
              order |-> IF isNew THEN Append(acc.order, key) ELSE acc.order]

RECURSIVE FeedDedupeFrom(_, _, _)
FeedDedupeFrom(props, i, acc) ==
    IF i > Len(props) THEN acc
    ELSE FeedDedupeFrom(props, i + 1, FeedDedupeStep(acc, props[i]))

\* list(latest.values()): the kept quotes in insertion order of their keys
FeedDedupe(props) ==
    LET acc == FeedDedupeFrom(props, 1, [latest |-> EmptyDict, order |-> <<>>])
    IN  [i \in 1..Len(acc.order) |-> acc.latest[acc.order[i]]]

\* ------------------------------------------------------------ query interface
\* .limit(n) / list[:n]
Take(s, n) == SubSeq(s, 1, IF n < Len(s) THEN n ELSE Len(s))

\* .order(column, desc=True): row i comes after every row that is greater and
\* after every earlier row that is not smaller (storage order breaks ties)
OrderDesc(rows, Gt(_, _)) ==
    LET n == Len(rows)
        rank(i) == 1 + Cardinality({j \in 1..n :
                        Gt(rows[j], rows[i]) \/ (j < i /\ ~Gt(rows[i], rows[j]))})
    IN  [k \in 1..n |-> rows[CHOOSE i \in 1..n : rank(i) = k]]

DateGt(a, b) == a.date > b.date
CreatedGt(a, b) == StrGreater(OrEmpty(a.created_at), OrEmpty(b.created_at))
ReportedGt(a, b) == a.reported_date > b.reported_date

\* what a guarded lookup hands back: a value, or the exception it let through
Ok(v) == [raised |-> FALSE, value |-> v]
Raise == [raised |-> TRUE, value |-> None]

\* ------------------------------------------------------------ Stat Extractor
\* stat.get(field): None when the record lacks the field or holds null
StatGet(stat, field) == IF field \in DOMAIN stat.vals THEN stat.vals[field] ELSE None

OrZero(o) == IF IsNone(o) THEN 0 ELSE Val(o)

\* the column a simple prop category reads
PropField ==
    [points |-> "points", rebounds |-> "rebounds", assists |-> "assists",
     threes |-> "three_pointers_made", steals |-> "steals", blocks |-> "blocks",
     turnovers |-> "turnovers", kills |-> "points", deaths |-> "rebounds",
     headshots |-> "headshots", first_kills |-> "first_kills",
     pass_yds |-> "passing_yards", rush_yds |-> "rushing_yards",
     receptions |-> "receptions", reception_yds |-> "receiving_yards",
     pass_tds |-> "passing_touchdowns", rush_tds |-> "rushing_touchdowns"]

\* the composite that is null as soon as a sub-field is missing (for comparison)
PropValueStrictComposite(stat, prop_type) ==
    IF prop_type = "pra"
    THEN IF \E f \in {"points", "rebounds", "assists"} : IsNone(StatGet(stat, f)) THEN None
         ELSE Some(Val(StatGet(stat, "points")) + Val(StatGet(stat, "rebounds"))
                   + Val(StatGet(stat, "assists")))
    ELSE IF prop_type \in DOMAIN PropField THEN StatGet(stat, PropField[prop_type])
    ELSE None

get_prop_value_from_stat(stat, prop_type) ==
    IF prop_type = "pra"
    THEN Some(OrZero(StatGet(stat, "points")) + OrZero(StatGet(stat, "rebounds"))
              + OrZero(StatGet(stat, "assists")))
    ELSE IF prop_type \in DOMAIN PropField THEN StatGet(stat, PropField[prop_type])
    ELSE None

\* ------------------------------------------------------------ Weighted Average Calculator
RECURSIVE WeightedSumsUnweighted(_, _, _, _, _)
\* sums with one weight for every position (for comparison)
WeightedSumsUnweighted(stats, prop_type, recency_weight, i, acc) ==
    IF i > Len(stats) THEN acc
    ELSE LET value == get_prop_value_from_stat(stats[i], prop_type)
             weight == RAdd(ROne, RMul(RInt(Len(stats)), recency_weight))
         IN  WeightedSumsUnweighted(stats, prop_type, recency_weight, i + 1,
                 IF IsNone(value) THEN acc
                 ELSE <<RAdd(acc[1], RMul(RInt(Val(value)), weight)), RAdd(acc[2], weight)>>)

RECURSIVE WeightedSumsOldestFirst(_, _, _, _, _)
\* sums whose weight grows with the position (for comparison)
WeightedSumsOldestFirst(stats, prop_type, recency_weight, i, acc) ==
    IF i > Len(stats) THEN acc
    ELSE LET value == get_prop_value_from_stat(stats[i], prop_type)
             weight == RAdd(ROne, RMul(RInt(i), recency_weight))
         IN  WeightedSumsOldestFirst(stats, prop_type, recency_weight, i + 1,
                 IF IsNone(value) THEN acc
                 ELSE <<RAdd(acc[1], RMul(RInt(Val(value)), weight)), RAdd(acc[2], weight)>>)

RECURSIVE WeightedSums(_, _, _, _, _)
\* (total_weighted_value, total_weight) over stats[i..], i is 1-based, so the
\* code's 0-based index is i - 1
WeightedSums(stats, prop_type, recency_weight, i, acc) ==
    IF i > Len(stats) THEN acc
    ELSE LET value == get_prop_value_from_stat(stats[i], prop_type)
             weight == RAdd(ROne, RMul(RInt(Len(stats) - (i - 1)), recency_weight))
         IN  WeightedSums(stats, prop_type, recency_weight, i + 1,
                 IF IsNone(value) THEN acc
                 ELSE <<RAdd(acc[1], RMul(RInt(Val(value)), weight)), RAdd(acc[2], weight)>>)

calculate_weighted_average(stats, prop_type, recency_weight) ==
    IF stats = <<>> THEN None
    ELSE LET sums == WeightedSums(stats, prop_type, recency_weight, 1, <<RZero, RZero>>)
         IN  IF sums[2] = RZero THEN None ELSE Some(RDiv(sums[1], sums[2]))

\* no recency bias at all (for comparison)
NoRecencyWeight == RZero

DefaultRecencyWeight == Rat(1, 10)
ProjectionRecencyWeight == Rat(3, 20)

\* ------------------------------------------------------------ guarded store lookups
\* no handler: the exception goes on to the caller (for comparison)
NoExcept(r, default) == r

\* try: ... except: return default
Except(r, default) == IF r.raised THEN Ok(default) ELSE r

\* `fail` is the set of lookups whose store request raises in this call
Lookups ==
    {"bovada", "recent15", "recent20", "matchup", "home", "away", "defense",
     "injury", "game", "rest"}

RecentWindow == 15
MatchupRecentWindow == 20
MatchupLimit == 10
HomeAwayLimit == 15
DefenseLimit == 100
DefenseMinRows == 10
DefenseMinValues == 5

load_player_recent_stats_body(db, fail, tag, player_id, games) ==
    IF tag \in fail THEN Raise
    ELSE Ok(Take(OrderDesc(SelectSeq(db.stats, LAMBDA r : r.player_id = player_id), DateGt),
                 games))

load_player_recent_stats(db, fail, tag, player_id, games) ==
    Except(load_player_recent_stats_body(db, fail, tag, player_id, games), <<>>)

load_matchup_stats_body(db, fail, player_id, opponent_team) ==
    IF "matchup" \in fail THEN Raise
    ELSE Ok(Take(OrderDesc(SelectSeq(db.stats,
                     LAMBDA r : r.player_id = player_id /\ r.opponent = opponent_team), DateGt),
                 MatchupLimit))

load_matchup_stats(db, fail, player_id, opponent_team) ==
    Except(load_matchup_stats_body(db, fail, player_id, opponent_team), <<>>)

load_home_away_stats_body(db, fail, player_id, home) ==
    IF (IF home THEN "home" ELSE "away") \in fail THEN Raise
    ELSE Ok(Take(OrderDesc(SelectSeq(db.stats,
                     LAMBDA r : r.player_id = player_id /\ r.home = home), DateGt),
                 HomeAwayLimit))

load_home_away_stats(db, fail, player_id, home) ==
    Except(load_home_away_stats_body(db, fail, player_id, home), <<>>)

\* Python truthiness of an Optional float: None and 0.0 are falsy
FalsyNum(o) == IsNone(o) \/ Val(o) = RZero

\* ------------------------------------------------------------ Adjustment Calculators
calculate_opponent_adjustment(db, fail, player_id, opponent_team, prop_type) ==
    LET Adjusted(all_stats, overall_avg, matchup_stats, matchup_avg) ==
            IF all_stats.raised THEN Raise
            ELSE IF FalsyNum(overall_avg) THEN Ok(ROne)
            ELSE IF matchup_stats.raised THEN Raise
            ELSE IF FalsyNum(matchup_avg) THEN Ok(ROne)
            ELSE Ok(RDiv(Val(matchup_avg), Val(overall_avg)))
        Averaged(all_stats, matchup_stats) ==
            Adjusted(all_stats,
                     calculate_weighted_average(all_stats.value, prop_type, DefaultRecencyWeight),
                     matchup_stats,
                     calculate_weighted_average(matchup_stats.value, prop_type,
                                                DefaultRecencyWeight))
    IN  Averaged(load_player_recent_stats(db, fail, "recent20", player_id, MatchupRecentWindow),
                 load_matchup_stats(db, fail, player_id, opponent_team))

calculate_home_away_adjustment(db, fail, player_id, prop_type, is_home) ==
    LET Adjusted(home_stats, away_stats, home_avg, away_avg, overall_avg) ==
            IF home_stats.raised \/ away_stats.raised THEN Raise
            ELSE IF FalsyNum(home_avg) \/ FalsyNum(away_avg) THEN Ok(ROne)
            ELSE IF overall_avg = RZero THEN Ok(ROne)
            ELSE IF is_home THEN Ok(RDiv(Val(home_avg), overall_avg))
            ELSE Ok(RDiv(Val(away_avg), overall_avg))
        Overall(home_stats, away_stats, home_avg, away_avg) ==
            Adjusted(home_stats, away_stats, home_avg, away_avg,
                     RDiv(RAdd(Val(home_avg), Val(away_avg)), RInt(2)))
        Averaged(home_stats, away_stats) ==
            Overall(home_stats, away_stats,
                    calculate_weighted_average(home_stats.value, prop_type, DefaultRecencyWeight),
                    calculate_weighted_average(away_stats.value, prop_type, DefaultRecencyWeight))
    IN  Averaged(load_home_away_stats(db, fail, player_id, TRUE),
                 load_home_away_stats(db, fail, player_id, FALSE))

\* str.lower() on the severity spellings of the injury feed
Lower(s) ==
    CASE s = "Out" -> "out"
      [] s = "Doubtful" -> "doubtful"
      [] s = "Questionable" -> "questionable"
      [] s = "Probable" -> "probable"
      [] OTHER -> s

HealthyStatus == [status |-> "healthy", severity |-> None, impact_multiplier |-> ROne]

SeverityImpact(severity) ==
    CASE severity = "out" -> 100
      [] severity = "doubtful" -> 50
      [] severity = "questionable" -> 25
      [] severity = "probable" -> 10
      [] OTHER -> 0

get_injury_status_body(db, fail, player_id) ==
    IF "injury" \in fail THEN Raise
    ELSE LET injuries == Take(OrderDesc(SelectSeq(db.injuries,
                                  LAMBDA r : r.player_id = player_id /\ r.status = "active"),
                              ReportedGt), 1)
         IN  IF injuries = <<>> THEN Ok(HealthyStatus)
             ELSE LET injury == injuries[1] IN
                  \* injury.get("severity", "").lower() on a null severity raises
                  IF IsNone(injury.severity) THEN Raise
                  ELSE LET severity == Lower(Val(injury.severity))
                           given == OrZero(injury.impact_percentage)
                           impact_pct == IF given = 0 THEN SeverityImpact(severity) ELSE given
                           impact_multiplier ==
                               RMax(RZero, RMin(ROne, RSub(ROne, Rat(impact_pct, 100))))
                       IN  Ok([status |-> IF severity = "" THEN "injured" ELSE severity,
                               severity |-> Some(severity),
                               impact_multiplier |-> impact_multiplier])

get_injury_status(db, fail, player_id) ==
    Except(get_injury_status_body(db, fail, player_id), HealthyStatus)

get_bovada_line_body(db, fail, player_id, game_id, prop_type) ==
    IF "bovada" \in fail THEN Raise
    ELSE LET props == Take(OrderDesc(SelectSeq(db.odds,
                               LAMBDA r : /\ r.player_id = player_id
                                          /\ r.game_id = game_id
                                          /\ r.prop_type = prop_type
                                          /\ r.book = "Bovada"),
                           CreatedGt), 1)
         IN  IF props # <<>> /\ ~IsNone(props[1].line) THEN Ok(props[1].line) ELSE Ok(None)

get_bovada_line(db, fail, player_id, game_id, prop_type) ==
    Except(get_bovada_line_body(db, fail, player_id, game_id, prop_type), None)

\* the value calculate_opponent_defense_rating reads from a row that carries
\* only the selected columns points, rebounds, assists
DefenseValue(game, prop_type) ==
    CASE prop_type = "points" -> StatGet(game, "points")
      [] prop_type = "rebounds" -> StatGet(game, "rebounds")
      [] prop_type = "assists" -> StatGet(game, "assists")
      [] prop_type = "pra" ->
            Some(OrZero(StatGet(game, "points")) + OrZero(StatGet(game, "rebounds"))
                 + OrZero(StatGet(game, "assists")))
      [] OTHER -> None

\* league_averages.get(prop_type, 10.0)
LeagueAverage(prop_type) ==
    CASE prop_type = "points" -> Rat(12, 1)
      [] prop_type = "rebounds" -> Rat(5, 1)
      [] prop_type = "assists" -> Rat(7, 2)
      [] prop_type = "pra" -> Rat(41, 2)
      [] prop_type = "threes" -> Rat(9, 5)
      [] OTHER -> Rat(10, 1)

DefenseFloor == Rat(85, 100)
DefenseCeiling == Rat(115, 100)

RECURSIVE SumSeq(_, _)
SumSeq(s, i) == IF i > Len(s) THEN 0 ELSE s[i] + SumSeq(s, i + 1)

\* a rating that counts every game with a value, played or not (for
\* comparison)
DefenseRatingOfAnyValue(db, fail, opponent_team, prop_type) ==
    IF "defense" \in fail THEN Raise
    ELSE LET opponent_games ==
                 Take(OrderDesc(SelectSeq(db.stats, LAMBDA r : r.opponent = opponent_team),
                                DateGt), DefenseLimit)
             counted == SelectSeq(opponent_games,
                            LAMBDA g : ~IsNone(DefenseValue(g, prop_type)))
             prop_values == [i \in 1..Len(counted) |-> Val(DefenseValue(counted[i], prop_type))]
             avg_allowed == Rat(SumSeq(prop_values, 1), Len(prop_values))
             league_avg == LeagueAverage(prop_type)
         IN  IF Len(opponent_games) < DefenseMinRows THEN Ok(ROne)
             ELSE IF Len(prop_values) < DefenseMinValues THEN Ok(ROne)
             ELSE IF RLt(RZero, league_avg)
                  THEN Ok(RMax(DefenseFloor, RMin(DefenseCeiling, RDiv(avg_allowed, league_avg))))
             ELSE Ok(ROne)

\* a rating without the clamp (for comparison)
DefenseRatingUnclamped(db, fail, opponent_team, prop_type) ==
    IF "defense" \in fail THEN Raise
    ELSE LET opponent_games ==
                 Take(OrderDesc(SelectSeq(db.stats, LAMBDA r : r.opponent = opponent_team),
                                DateGt), DefenseLimit)
             counted == SelectSeq(opponent_games,
                            LAMBDA g : ~IsNone(DefenseValue(g, prop_type))
                                       /\ Val(DefenseValue(g, prop_type)) > 0)
             prop_values == [i \in 1..Len(counted) |-> Val(DefenseValue(counted[i], prop_type))]
             avg_allowed == Rat(SumSeq(prop_values, 1), Len(prop_values))
             league_avg == LeagueAverage(prop_type)
         IN  IF Len(opponent_games) < DefenseMinRows THEN Ok(ROne)
             ELSE IF Len(prop_values) < DefenseMinValues THEN Ok(ROne)
             ELSE IF RLt(RZero, league_avg) THEN Ok(RDiv(avg_allowed, league_avg))
             ELSE Ok(ROne)

calculate_opponent_defense_rating_body(db, fail, opponent_team, prop_type) ==
    IF "defense" \in fail THEN Raise
    ELSE LET opponent_games ==
                 Take(OrderDesc(SelectSeq(db.stats, LAMBDA r : r.opponent = opponent_team),
                                DateGt), DefenseLimit)
             counted == SelectSeq(opponent_games,
                            LAMBDA g : ~IsNone(DefenseValue(g, prop_type))
                                       /\ Val(DefenseValue(g, prop_type)) > 0)
             prop_values == [i \in 1..Len(counted) |-> Val(DefenseValue(counted[i], prop_type))]
             avg_allowed == Rat(SumSeq(prop_values, 1), Len(prop_values))
             league_avg == LeagueAverage(prop_type)
         IN  IF Len(opponent_games) < DefenseMinRows THEN Ok(ROne)
             ELSE IF Len(prop_values) < DefenseMinValues THEN Ok(ROne)
             ELSE IF RLt(RZero, league_avg)
                  THEN Ok(RMax(DefenseFloor, RMin(DefenseCeiling, RDiv(avg_allowed, league_avg))))
             ELSE Ok(ROne)

calculate_opponent_defense_rating(db, fail, opponent_team, prop_type) ==
    Except(calculate_opponent_defense_rating_body(db, fail, opponent_team, prop_type), ROne)

DefaultRestDays == 2

\* rest days counted from the newest game on record, whenever it was played
\* (for comparison)
RestDaysSinceNewest(db, fail, player_id, game_date) ==
    IF "rest" \in fail THEN Raise
    ELSE LET last_game == Take(OrderDesc(SelectSeq(db.stats,
                                   LAMBDA r : r.player_id = player_id),
                               DateGt), 1)
         IN  IF last_game = <<>> THEN Ok(DefaultRestDays)
             ELSE LET rest_days == game_date - last_game[1].date
                  IN  Ok(IF rest_days < 0 THEN 0 ELSE rest_days)

get_player_rest_days_body(db, fail, player_id, game_date) ==
    IF "rest" \in fail THEN Raise
    ELSE LET last_game == Take(OrderDesc(SelectSeq(db.stats,
                                   LAMBDA r : r.player_id = player_id /\ r.date < game_date),
                               DateGt), 1)
         IN  IF last_game = <<>> THEN Ok(DefaultRestDays)
             ELSE LET rest_days == game_date - last_game[1].date
                  IN  Ok(IF rest_days < 0 THEN 0 ELSE rest_days)

get_player_rest_days(db, fail, player_id, game_date) ==
    Except(get_player_rest_days_body(db, fail, player_id, game_date), DefaultRestDays)

\* a lookup whose second branch takes two days of rest as well (for
\* comparison)
RestAdjustmentOffByOne(rest_days) ==
    IF rest_days = 0 THEN Rat(95, 100)
    ELSE IF rest_days <= 2 THEN Rat(98, 100)
    ELSE IF rest_days >= 3 THEN Rat(102, 100)
    ELSE ROne

calculate_rest_adjustment(rest_days) ==
    IF rest_days = 0 THEN Rat(95, 100)
    ELSE IF rest_days = 1 THEN Rat(98, 100)
    ELSE IF rest_days >= 3 THEN Rat(102, 100)
    ELSE ROne

calculate_pace_adjustment(game_id, prop_type) == ROne

\* ------------------------------------------------------------ Projection Builder
ConfidenceFullSample == 15
ConfidenceMinSample == 5
ConfidenceWindow == 10
ConfidenceMinValues == 3

RECURSIVE SumSquares(_, _)
SumSquares(s, i) == IF i > Len(s) THEN 0 ELSE s[i] * s[i] + SumSquares(s, i + 1)

\* variance ** 0.5 is never taken: a comparison with the square root of a
\* natural number D is decided on integers.  With r the floor of the root,
\* x = a / b lies below r, at or above r + 1, or at r + e / b, and then
\* (r + e / b)^2 against D is 2 * r * e * b + e^2 against (D - r^2) * b^2
ISqrt(D) == CHOOSE r \in 0..D : r * r <= D /\ (r + 1) * (r + 1) > D

\* sqrt(D) <= x, for r = ISqrt(D)
SqrtLe(D, r, x) ==
    LET e == x[1] - r * x[2]
    IN  IF e < 0 THEN FALSE
        ELSE IF e >= x[2] THEN TRUE
        ELSE 2 * r * e * x[2] + e * e >= (D - r * r) * x[2] * x[2]

\* sqrt(D) >= x, for r = ISqrt(D)
SqrtGe(D, r, x) ==
    LET e == x[1] - r * x[2]
    IN  IF e < 0 THEN TRUE
        ELSE IF e >= x[2] THEN FALSE
        ELSE 2 * r * e * x[2] + e * e <= (D - r * r) * x[2] * x[2]

\* round(c0 * max(0.5, 1.0 - cv * 0.5), 2) with cv = std_dev / avg, where
\* avg = S / n and std_dev = sqrt(D) / n for S = sum(values),
\* D = n * sum(v^2) - S^2.  For c0 = p / q the product y has
\* 100 * y >= t  exactly when  sqrt(D) <= S * (100 * p - t * q) / (50 * p).
ScaledConfidence(c0, values) ==
    LET n == Len(values)
        S == SumSeq(values, 1)
        D == n * SumSquares(values, 1) - S * S
        p == c0[1]
        q == c0[2]
        \* the bound on sqrt(D) for t = (2k - 1) / 2
        X(k) == Rat(S * (200 * p - (2 * k - 1) * q), 100 * p)
        Rounded(r) ==
            LET \* 100 * y >= (2k - 1) / 2   and   100 * y <= (2k - 1) / 2
                Ge(k) == SqrtLe(D, r, X(k))
                Le(k) == SqrtGe(D, r, X(k))
                cands == {k \in 0..100 : Ge(k) /\ Le(k + 1)}
            IN  Rat(CHOOSE k \in cands : \A j \in cands : j = k \/ k % 2 = 0, 100)
    IN  IF D >= S * S THEN Round2(RMul(c0, Rat(1, 2)))
        ELSE Rounded(ISqrt(D))

\* the confidence scaled on any number of values (for comparison)
ConfidenceOfAnyValues(recent_stats, prop_type) ==
    LET sample_size == Len(recent_stats)
        c0 == RMin(ROne, Rat(sample_size, ConfidenceFullSample))
        got == SelectSeq(Take(recent_stats, ConfidenceWindow),
                         LAMBDA st : ~IsNone(get_prop_value_from_stat(st, prop_type)))
        values == [i \in 1..Len(got) |-> Val(get_prop_value_from_stat(got[i], prop_type))]
    IN  IF sample_size >= ConfidenceMinSample /\ SumSeq(values, 1) > 0
        THEN ScaledConfidence(c0, values)
        ELSE Round2(c0)

Confidence(recent_stats, prop_type) ==
    LET sample_size == Len(recent_stats)
        c0 == RMin(ROne, Rat(sample_size, ConfidenceFullSample))
        got == SelectSeq(Take(recent_stats, ConfidenceWindow),
                         LAMBDA st : ~IsNone(get_prop_value_from_stat(st, prop_type)))
        values == [i \in 1..Len(got) |-> Val(get_prop_value_from_stat(got[i], prop_type))]
    IN  IF sample_size >= ConfidenceMinSample /\ Len(values) >= ConfidenceMinValues
           /\ SumSeq(values, 1) > 0
        THEN ScaledConfidence(c0, values)
        ELSE Round2(c0)

\* the result of the early return and of the outer except
NullProjection ==
    [projected_line |-> None, confidence |-> RZero, factors |-> EmptyDict,
     sample_size |-> 0, injury_status |-> None, baseline_source |-> None,
     bovada_line |-> None]

\* the games lookup and the rest-day lookup sit in one try/except: pass
RestLookup(db, fail, player_id, game_id) ==
    LET rows == Take(SelectSeq(db.games, LAMBDA g : g.id = game_id), 1)
        rest == get_player_rest_days(db, fail, player_id, Val(rows[1].start_time))
    IN  IF "game" \in fail THEN None
        ELSE IF rows = <<>> \/ IsNone(rows[1].start_time) THEN None
        ELSE IF rest.raised THEN None
        ELSE Some(rest.value)

calculate_projection_body(db, fail, player_id, prop_type, opponent_team, is_home, game_id, bovada_line_arg) ==
    LET lookedUp == IsNone(bovada_line_arg) /\ Truthy(game_id)
        \* lines 540-593: the product of the factors and the result dict
        Projected(bovada_line, recent_stats, player_avg, baseline, baseline_source, defense,
                  matchup, home_away, injury, rest_days, rest_adj, pace_adj) ==
            IF defense.raised \/ matchup.raised \/ home_away.raised \/ injury.raised THEN Raise
            ELSE Ok([projected_line |->
                         Some(Round1(RMul(RMul(RMul(RMul(RMul(RMul(baseline, defense.value),
                                                              matchup.value),
                                                         home_away.value),
                                                    injury.value.impact_multiplier),
                                               rest_adj),
                                          pace_adj))),
                     confidence |-> Confidence(recent_stats, prop_type),
                     factors |->
                         [baseline |-> baseline,
                          baseline_source |-> baseline_source,
                          player_avg |-> IF IsNone(player_avg) THEN RZero ELSE Val(player_avg),
                          defense_adjustment |-> defense.value,
                          matchup_adjustment |-> matchup.value,
                          home_away_adjustment |-> home_away.value,
                          injury_adjustment |-> injury.value.impact_multiplier,
                          rest_adjustment |-> rest_adj,
                          pace_adjustment |-> pace_adj,
                          rest_days |-> rest_days],
                     sample_size |-> Len(recent_stats),
                     injury_status |-> Some(injury.value.status),
                     baseline_source |-> Some(baseline_source),
                     bovada_line |-> bovada_line])
        \* lines 500-538: the adjustment factors of a projection with a baseline
        Adjusted(bovada_line, recent_stats, player_avg, rest_days) ==
            Projected(bovada_line, recent_stats, player_avg,
                      IF ~IsNone(bovada_line) THEN Val(bovada_line) ELSE Val(player_avg),
                      IF ~IsNone(bovada_line) THEN "bovada" ELSE "player_avg",
                      IF Truthy(opponent_team)
                      THEN calculate_opponent_defense_rating(db, fail, opponent_team, prop_type)
                      ELSE Ok(ROne),
                      IF Truthy(opponent_team)
                      THEN calculate_opponent_adjustment(db, fail, player_id, opponent_team,
                                                         prop_type)
                      ELSE Ok(ROne),
                      calculate_home_away_adjustment(db, fail, player_id, prop_type, is_home),
                      get_injury_status(db, fail, player_id),
                      rest_days,
                      IF IsNone(rest_days) THEN ROne
                      ELSE calculate_rest_adjustment(Val(rest_days)),
                      IF Truthy(game_id) THEN calculate_pace_adjustment(game_id, prop_type)
                      ELSE ROne)
        \* lines 478-498: the baseline, or the early return without one
        Based(bovada_line, recent_stats, player_avg) ==
            IF IsNone(bovada_line) /\ IsNone(player_avg) THEN Ok(NullProjection)
            ELSE Adjusted(bovada_line, recent_stats, player_avg,
                          IF Truthy(game_id) THEN RestLookup(db, fail, player_id, game_id)
                          ELSE None)
        Averaged(bovada_line, recent) ==
            IF recent.raised THEN Raise
            ELSE Based(bovada_line, recent.value,
                       IF recent.value # <<>>
                       THEN calculate_weighted_average(recent.value, prop_type,
                                                       ProjectionRecencyWeight)
                       ELSE None)
        Fetched(fetched) ==
            IF lookedUp /\ fetched.raised THEN Raise
            ELSE Averaged(IF lookedUp THEN fetched.value ELSE bovada_line_arg,
                          load_player_recent_stats(db, fail, "recent15", player_id,
                                                   RecentWindow))
    IN  Fetched(get_bovada_line(db, fail, player_id, game_id, prop_type))

\* the outer try/except Exception of calculate_projection
calculate_projection(db, fail, player_id, prop_type, opponent_team, is_home, game_id, bovada_line_arg) ==
    Except(calculate_projection_body(db, fail, player_id, prop_type, opponent_team, is_home,
                                     game_id, bovada_line_arg), NullProjection)

\* ------------------------------------------------------------ Snapshot Builders: reads
\* the store's reading of an ISO timestamp it wrote (inverse of IsoFormat)
ParseIso(str) == str[1] * 10 + str[2]

\* _fetch_recent_props: created_at >= now - hours, newest first, at most
\* `limit` rows when limit is truthy
FetchRecentProps(odds, now, hours, limit) ==
    LET cutoff == now - hours
        recent == OrderDesc(SelectSeq(odds, LAMBDA r : ParseIso(Val(r.created_at)) >= cutoff),
                            CreatedGt)
    IN  IF limit # 0 THEN Take(recent, limit) ELSE recent

\* sorted({id for id in ids if id}) as a list.
\* player and game ids are single letters followed by a digit in the model;
\* they are ordered as Python orders them, by their character codes
IdCodes(id) ==
    CASE id = "p1" -> <<112, 49>> [] id = "p2" -> <<112, 50>> [] id = "p3" -> <<112, 51>>
      [] id = "p4" -> <<112, 52>> [] id = "g1" -> <<103, 49>> [] id = "g2" -> <<103, 50>>
      [] id = "g3" -> <<103, 51>> [] OTHER -> <<>>

RECURSIVE SortedIds(_)
SortedIds(S) ==
    IF S = {} THEN <<>>
    ELSE LET m == CHOOSE x \in S : \A y \in S : x = y \/ StrGreater(IdCodes(y), IdCodes(x))
         IN  <<m>> \o SortedIds(S \ {m})

TruthyIds(props, field) == {props[i][field] : i \in 1..Len(props)} \ {""}

\* _chunked(ids, size): the k-th chunk (k from 1)
ChunkOf(ids, size, k) == SubSeq(ids, (k - 1) * size + 1,
                                IF k * size < Len(ids) THEN k * size ELSE Len(ids))
NumChunks(ids, size) == (Len(ids) + size - 1) \div size
SeqToSet(s) == {s[i] : i \in 1..Len(s)}

\* one chunk of get_players_map / get_games_map: rows whose id is in the
\* chunk, entered into the map under their id
RECURSIVE MapRows(_, _, _)
MapRows(map, rows, i) ==
    IF i > Len(rows) THEN map
    ELSE MapRows(IF Truthy(rows[i].id) THEN DictSet(map, rows[i].id, rows[i]) ELSE map,
                 rows, i + 1)

ReadIdChunk(map, table, chunk) ==
    MapRows(map, SelectSeq(table, LAMBDA r : r.id \in SeqToSet(chunk)), 1)

\* players_map.get(player_id, {}).get("sport")
SportOf(players_map, player_id) ==
    IF player_id \in DOMAIN players_map THEN players_map[player_id].sport ELSE ""

EsportsSubSports == {"CS2", "LoL", "Dota2", "Valorant"}

\* the --sport filter of build_snapshots ("" is no filter)
SportFilter(props, players_map, sport) ==
    IF sport = "" THEN props
    ELSE IF sport = "Esports"
    THEN SelectSeq(props, LAMBDA q : SportOf(players_map, q.player_id) \in EsportsSubSports)
    ELSE SelectSeq(props, LAMBDA q : SportOf(players_map, q.player_id) = sport)

\* _resolve_matchup for a game that exists ("" stands for a missing team name)
ResolveMatchup(player_team, game) ==
    LET home_team == game.home_team
        away_team == game.away_team
        byTeam == IF Truthy(player_team) /\ player_team = home_team
                  THEN [opponent |-> away_team, is_home |-> TRUE]
                  ELSE IF Truthy(player_team) /\ player_team = away_team
                  THEN [opponent |-> home_team, is_home |-> FALSE]
                  ELSE [opponent |-> "", is_home |-> FALSE]
        fallback == IF Truthy(away_team) THEN away_team ELSE home_team
    IN  IF byTeam.opponent = ""
        THEN [opponent |-> fallback, is_home |-> fallback = away_team]
        ELSE byTeam

\* ------------------------------------------------------------ Projection Snapshot Builder: rows
\* the snapshot dict of build_projection_snapshots.build_snapshots, lines 136-157
ProjSnapshotRow(key, prop, player, matchup, projection, now_iso) ==
    [player_id |-> key[1],
     game_id |-> key[2],
     sport |-> player.sport,
     prop_type |-> key[3],
     opponent |-> matchup.opponent,
     is_home |-> matchup.is_home,
     projected_line |-> projection.projected_line,
     confidence |-> projection.confidence,
     baseline_source |-> projection.baseline_source,
     bovada_line |-> projection.bovada_line,
     factors |-> projection.factors,
     sample_size |-> projection.sample_size,
     injury_status |-> projection.injury_status,
     rest_days |-> projection.factors.rest_days,
     source_prop_id |-> prop.id,
     snapshot_version |-> "v1",
     snapshot_at |-> now_iso,
     created_at |-> now_iso,
     updated_at |-> now_iso]

\* the argument the builder hands to calculate_projection as bovada_line
PassedBovadaLine(bovada_lines, key) == DictGet(bovada_lines, key)

\* a loop body that emits a row only for a key with a sportsbook line (for
\* comparison)
ProjLoopBodyBookOnly(db, fail, key, prop, players_map, games_map, bovada_lines, now_iso) ==
    IF key[1] \notin DOMAIN players_map \/ key[2] \notin DOMAIN games_map THEN None
    ELSE LET player == players_map[key[1]]
             Emit(matchup, projection) ==
                 IF IsNone(projection.projected_line) \/ IsNone(projection.bovada_line) THEN None
                 ELSE Some(ProjSnapshotRow(key, prop, player, matchup, projection, now_iso))
             Matched(matchup) ==
                 Emit(matchup,
                      calculate_projection(db, fail, key[1], key[3], matchup.opponent,
                          matchup.is_home, key[2], DictGet(bovada_lines, key)).value)
         IN  Matched(ResolveMatchup(player.team, games_map[key[2]]))

\* one pass of the loop body, lines 118-158: the row to append, if any
ProjLoopBody(db, fail, key, prop, players_map, games_map, bovada_lines, now_iso) ==
    IF key[1] \notin DOMAIN players_map \/ key[2] \notin DOMAIN games_map THEN None
    ELSE LET player == players_map[key[1]]
             game == games_map[key[2]]
             Emit(matchup, projection) ==
                 IF IsNone(projection.projected_line) THEN None
                 ELSE Some(ProjSnapshotRow(key, prop, player, matchup, projection, now_iso))
             Matched(matchup) ==
                 Emit(matchup,
                      calculate_projection(db, fail, key[1], key[3], matchup.opponent,
                          matchup.is_home, key[2], PassedBovadaLine(bovada_lines, key)).value)
         IN  Matched(ResolveMatchup(player.team, game))

\* ------------------------------------------------------------ upsert
\* conflict targets and statements other than the builder's (for comparison)
ConflictOnSourceProp == <<"source_prop_id">>

\* on_conflict="player_id,game_id,prop_type" and on_conflict="prop_id"
ProjConflictKey == <<"player_id", "game_id", "prop_type">>
FeedConflictKey == <<"prop_id">>

\* a row's values in the conflict columns
KeyOf(row, on_conflict) == [i \in 1..Len(on_conflict) |-> row[on_conflict[i]]]

\* INSERT ... ON CONFLICT (key) DO UPDATE of one row: the row with the same
\* conflict key is overwritten whole, and a row with a new key is added
UpsertRow(table, row, on_conflict) ==
    LET hit == {j \in 1..Len(table) : KeyOf(table[j], on_conflict) = KeyOf(row, on_conflict)}
    IN  IF hit = {} THEN Append(table, row)
        ELSE [j \in 1..Len(table) |-> IF j \in hit THEN row ELSE table[j]]

\* one statement may not touch the same conflict key twice: the store rejects it
HasDuplicateKey(chunk, on_conflict) ==
    \E i, j \in 1..Len(chunk) :
        i < j /\ KeyOf(chunk[i], on_conflict) = KeyOf(chunk[j], on_conflict)

RECURSIVE UpsertProjFrom(_, _, _)
UpsertProjFrom(table, chunk, i) ==
    IF i > Len(chunk) THEN table
    ELSE UpsertProjFrom(UpsertRow(table, chunk[i], ProjConflictKey), chunk, i + 1)

\* a plain INSERT
InsertRows(table, chunk) == Ok(table \o chunk)

RECURSIVE KeepExistingFrom(_, _, _)
KeepExistingFrom(table, chunk, i) ==
    IF i > Len(chunk) THEN table
    ELSE KeepExistingFrom(
             IF \E j \in 1..Len(table) :
                    <<table[j].player_id, table[j].game_id, table[j].prop_type>>
                    = <<chunk[i].player_id, chunk[i].game_id, chunk[i].prop_type>>
             THEN table ELSE Append(table, chunk[i]),
             chunk, i + 1)

\* INSERT ... ON CONFLICT DO NOTHING
InsertIfAbsent(table, chunk) == Ok(KeepExistingFrom(table, chunk, 1))

\* .upsert(chunk, on_conflict="player_id,game_id,prop_type").execute()
UpsertProj(table, chunk) ==
    IF HasDuplicateKey(chunk, ProjConflictKey) THEN Raise
    ELSE Ok(UpsertProjFrom(table, chunk, 1))

RECURSIVE UpsertFeedFrom(_, _, _)
UpsertFeedFrom(table, chunk, i) ==
    IF i > Len(chunk) THEN table
    ELSE UpsertFeedFrom(UpsertRow(table, chunk[i], FeedConflictKey), chunk, i + 1)

\* .upsert(chunk, on_conflict="prop_id").execute()
UpsertFeed(table, chunk) ==
    IF HasDuplicateKey(chunk, FeedConflictKey) THEN Raise
    ELSE Ok(UpsertFeedFrom(table, chunk, 1))

\* ------------------------------------------------------------ Prop Feed Snapshot Builder: reads
StatsPerPlayer == 20

\* one chunk of get_recent_stats_map: the newest chunk_limit rows of the
\* chunk's players, appended to each player's list in that order
RECURSIVE AppendStats(_, _, _)
AppendStats(stats_map, rows, i) ==
    IF i > Len(rows) THEN stats_map
    ELSE AppendStats(
             IF rows[i].player_id \in DOMAIN stats_map
             THEN [stats_map EXCEPT ![rows[i].player_id] = Append(@, rows[i])]
             ELSE stats_map,
             rows, i + 1)

ReadStatsChunk(stats_map, table, chunk, limit_per_player) ==
    LET scaled == limit_per_player * Len(chunk)
        chunk_limit == IF scaled > limit_per_player THEN scaled ELSE limit_per_player
        rows == Take(OrderDesc(SelectSeq(table, LAMBDA r : r.player_id \in SeqToSet(chunk)),
                               DateGt), chunk_limit)
    IN  AppendStats(stats_map, rows, 1)

\* the trim at the end of get_recent_stats_map: lists cut to the limit, empty
\* lists dropped
TrimStats(stats_map, limit_per_player) ==
    LET kept == {pid \in DOMAIN stats_map : stats_map[pid] # <<>>}
    IN  [pid \in kept |-> Take(stats_map[pid], limit_per_player)]

\* one chunk of get_projection_snapshots_map
RECURSIVE MapSnapshots(_, _, _, _)
MapSnapshots(snapshots, rows, game_filter, i) ==
    IF i > Len(rows) THEN snapshots
    ELSE LET row == rows[i]
             skip == row.prop_type = "" \/ (game_filter # {} /\ row.game_id \notin game_filter)
         IN  MapSnapshots(IF skip THEN snapshots
                          ELSE DictSet(snapshots, <<row.player_id, row.game_id, row.prop_type>>, row),
                          rows, game_filter, i + 1)

ReadSnapshotChunk(snapshots, table, chunk, game_filter, prop_filter) ==
    MapSnapshots(snapshots,
                 SelectSeq(table, LAMBDA r : /\ r.player_id \in SeqToSet(chunk)
                                             /\ (prop_filter = {} \/ r.prop_type \in prop_filter)),
                 game_filter, 1)

\* ------------------------------------------------------------ Edge / Hit-Rate Calculator
\* the expected value with the stake counted into the payout (for comparison)
EvWithStake(true_prob, american_odds) ==
    LET payout == IF american_odds > 0 THEN Rat(american_odds + 100, 100)
                  ELSE Rat(100 - american_odds, -american_odds)
    IN  RSub(RMul(true_prob, payout), RSub(ROne, true_prob))

\* utils.ev.ev
ev(true_prob, american_odds) ==
    LET payout == IF american_odds > 0 THEN Rat(american_odds, 100)
                  ELSE Rat(100, -american_odds)
    IN  RSub(RMul(true_prob, payout), RSub(ROne, true_prob))

Smoothing == Rat(1, 10)

\* the non-null prop values of a stat list, in list order
PropValues(stats, prop_type) ==
    LET got == SelectSeq(stats, LAMBDA st : ~IsNone(get_prop_value_from_stat(st, prop_type)))
    IN  [i \in 1..Len(got) |-> Val(get_prop_value_from_stat(got[i], prop_type))]

\* the count of the values at or above the line (for comparison)
CountAtLeast(values, line) == Cardinality({i \in 1..Len(values) : RLe(line, RInt(values[i]))})

\* sum(1 for v in prop_values if v > line) and its mirror
CountOver(values, line) == Cardinality({i \in 1..Len(values) : RLt(line, RInt(values[i]))})
CountUnder(values, line) == Cardinality({i \in 1..Len(values) : RLt(RInt(values[i]), line)})

\* Python truthiness of an Optional price: None and 0 are falsy
TruthyPrice(o) == ~IsNone(o) /\ Val(o) # 0

\* the smoothed probabilities without the re-normalization (for comparison)
SmoothedUnnormalised(total_games, hits_over, hits_under) ==
    LET denom == RAdd(RInt(total_games), RMul(Smoothing, RInt(2)))
    IN  <<RDiv(RAdd(RInt(hits_over), Smoothing), denom),
          RDiv(RAdd(RInt(hits_under), Smoothing), denom)>>

\* lines 136-143: (over_prob, under_prob), smoothed and re-normalized
SmoothedProbabilities(total_games, hits_over, hits_under) ==
    LET denom == RAdd(RInt(total_games), RMul(Smoothing, RInt(2)))
        over_raw == RDiv(RAdd(RInt(hits_over), Smoothing), denom)
        under_raw == RDiv(RAdd(RInt(hits_under), Smoothing), denom)
        total_prob == RAdd(over_raw, under_raw)
    IN  IF RLt(RZero, total_prob)
        THEN <<RDiv(over_raw, total_prob), RDiv(under_raw, total_prob)>>
        ELSE <<over_raw, under_raw>>

_calculate_edge_and_hitrate(prop, stats) ==
    LET line == Float(Val(prop.line))
        \* lines 146-159: the better side, and the hit-rate dict
        Chosen(total_games, hits_over, hits_under, over_prob, under_prob, over_ev, under_ev) ==
            [edge |->
                 IF ~IsNone(over_ev) /\ (IsNone(under_ev) \/ RLe(Val(under_ev), Val(over_ev)))
                 THEN Some([edge |-> Val(over_ev), side |-> "over", prob |-> over_prob,
                            odds |-> prop.over_price])
                 ELSE IF ~IsNone(under_ev)
                 THEN Some([edge |-> Val(under_ev), side |-> "under", prob |-> under_prob,
                            odds |-> prop.under_price])
                 ELSE None,
             hit_rate |->
                 Some([total_games |-> total_games,
                       over_pct |-> Round1(RMul(Rat(hits_over, total_games), RInt(100))),
                       under_pct |-> Round1(RMul(Rat(hits_under, total_games), RInt(100))),
                       pushes |-> total_games - hits_over - hits_under,
                       over_count |-> hits_over,
                       under_count |-> hits_under])]
        Valued(total_games, hits_over, hits_under, over_prob, under_prob) ==
            Chosen(total_games, hits_over, hits_under, over_prob, under_prob,
                   IF TruthyPrice(prop.over_price)
                   THEN Some(ev(over_prob, Val(prop.over_price))) ELSE None,
                   IF TruthyPrice(prop.under_price)
                   THEN Some(ev(under_prob, Val(prop.under_price))) ELSE None)
        Smoothed(total_games, hits_over, hits_under) ==
            LET Probs(pr) == Valued(total_games, hits_over, hits_under, pr[1], pr[2])
            IN  Probs(SmoothedProbabilities(total_games, hits_over, hits_under))
        Counted(prop_values) ==
            IF prop_values = <<>> THEN [edge |-> None, hit_rate |-> None]
            ELSE Smoothed(Len(prop_values),
                          CountOver(prop_values, line),
                          CountUnder(prop_values, line))
    IN  IF stats = <<>> \/ IsNone(prop.line) THEN [edge |-> None, hit_rate |-> None]
        ELSE Counted(PropValues(stats, prop.prop_type))

SparklineLimit == 10

\* _build_sparkline_values: the newest `limit` records, oldest first
_build_sparkline_values(stats, prop_type) ==
    LET recent == Take(stats, SparklineLimit)
        reversed == [i \in 1..Len(recent) |-> recent[Len(recent) + 1 - i]]
    IN  PropValues(reversed, prop_type)

_calculate_matchup_stats(stats, opponent, prop_type) ==
    LET values == PropValues(SelectSeq(stats, LAMBDA st : st.opponent = opponent), prop_type)
    IN  IF stats = <<>> \/ ~Truthy(opponent) THEN None
        ELSE IF values = <<>> THEN None
        ELSE Some([avg_vs_opponent |-> Rat(SumSeq(values, 1), Len(values)),
                   games |-> Len(values)])

\* ------------------------------------------------------------ DFS lines
ScrapedGt(a, b) == a.scraped_at > b.scraped_at

\* services.line_helpers.get_scraped_dfs_line: any exception ends in None
get_scraped_dfs_line(db, fail, player_id, game_id, prop_type, source) ==
    IF source \in fail THEN None
    ELSE LET rows == Take(OrderDesc(SelectSeq(db.dfs,
                              LAMBDA r : /\ r.player_id = player_id
                                         /\ r.game_id = game_id
                                         /\ r.prop_type = prop_type
                                         /\ r.source = source),
                          ScrapedGt), 1)
         IN  IF rows # <<>> THEN rows[1].line ELSE None

\* adjustments.get(prop_type, 1.0)
DfsAdjustment(prop_type) ==
    CASE prop_type = "points" -> Rat(3, 2)
      [] prop_type = "rebounds" -> ROne
      [] prop_type = "assists" -> ROne
      [] prop_type = "pra" -> Rat(5, 2)
      [] prop_type = "threes" -> Rat(1, 2)
      [] OTHER -> ROne

\* round(dfs_line * 2) / 2
adjust_for_dfs_line(book_line, prop_type) ==
    Rat(RoundHalfEven(RMul(RAdd(book_line, DfsAdjustment(prop_type)), RInt(2))), 2)

\* lines 211-217 of build_prop_feed_snapshots.build_snapshots
DfsLine(db, fail, prop) ==
    LET prizepicks == get_scraped_dfs_line(db, fail, prop.player_id, prop.game_id,
                                           prop.prop_type, "prizepicks")
        underdog == get_scraped_dfs_line(db, fail, prop.player_id, prop.game_id,
                                         prop.prop_type, "underdog")
    IN  IF IsNone(prop.line) THEN None
        ELSE IF ~IsNone(prizepicks) THEN prizepicks
        ELSE IF ~IsNone(underdog) THEN underdog
        ELSE Some(adjust_for_dfs_line(Float(Val(prop.line)), prop.prop_type))

\* ------------------------------------------------------------ Prop Feed Snapshot Builder: rows
\* projection.get(field) if projection else None
OfProjection(projection, field) ==
    IF IsNone(projection) THEN None ELSE Val(projection)[field]

\* the row dict of build_prop_feed_snapshots.build_snapshots, lines 218-260
FeedRow(db, fail, prop, player, game, stats, projection, now_iso) ==
    LET Row(edge_data, hit_rate, matchup) ==
            [prop_id |-> prop.id,
             player_id |-> prop.player_id,
             game_id |-> prop.game_id,
             sport |-> player.sport,
             player_name |-> player.name,
             team |-> player.team,
             opponent |-> matchup.opponent,
             is_home |-> matchup.is_home,
             prop_type |-> prop.prop_type,
             line |-> prop.line,
             over_price |-> prop.over_price,
             under_price |-> prop.under_price,
             book |-> prop.book,
             projection_line |-> OfProjection(projection, "projected_line"),
             projection_confidence |-> IF IsNone(projection) THEN None ELSE Some(Val(projection).confidence),
             projection_baseline |-> OfProjection(projection, "baseline_source"),
             projection_bovada_line |-> OfProjection(projection, "bovada_line"),
             edge |-> IF IsNone(edge_data) THEN None ELSE Some(Val(edge_data).edge),
             edge_side |-> IF IsNone(edge_data) THEN None ELSE Some(Val(edge_data).side),
             edge_prob |-> IF IsNone(edge_data) THEN None ELSE Some(Val(edge_data).prob),
             ev_odds |-> IF IsNone(edge_data) THEN None ELSE Val(edge_data).odds,
             hitrate_over_pct |->
                 IF IsNone(hit_rate) THEN None ELSE Some(Val(hit_rate).over_pct),
             hitrate_under_pct |->
                 IF IsNone(hit_rate) THEN None ELSE Some(Val(hit_rate).under_pct),
             hitrate_games |->
                 IF IsNone(hit_rate) THEN None ELSE Some(Val(hit_rate).total_games),
             dfs_line |-> DfsLine(db, fail, prop),
             snapshot_at |-> now_iso,
             source_prop_created_at |-> prop.created_at,
             metadata |->
                 [edge |-> edge_data,
                  hit_rate |-> hit_rate,
                  sparkline_values |-> _build_sparkline_values(stats, prop.prop_type),
                  matchup_stats |->
                      _calculate_matchup_stats(stats, matchup.opponent, prop.prop_type),
                  player_position |-> player.position,
                  projection_snapshot |->
                      IF IsNone(projection) THEN None
                      ELSE Some([injury_status |-> Val(projection).injury_status,
                                 rest_days |-> Val(projection).rest_days,
                                 factors |-> Val(projection).factors])],
             created_at |-> now_iso,
             updated_at |-> now_iso]
        Rated(eh) == Row(eh.edge, eh.hit_rate, ResolveMatchup(player.team, game))
    IN  Rated(_calculate_edge_and_hitrate(prop, stats))

\* a loop body that looks the snapshot up under (player, prop type, game)
\* (for comparison)
FeedLoopBodyMiskeyed(db, fail, prop, players_map, games_map, stats_map, projection_map, now_iso) ==
    IF ~(Truthy(prop.player_id) /\ Truthy(prop.game_id) /\ Truthy(prop.prop_type)) THEN None
    ELSE IF prop.player_id \notin DOMAIN players_map \/ prop.game_id \notin DOMAIN games_map
    THEN None
    ELSE Some(FeedRow(db, fail, prop, players_map[prop.player_id], games_map[prop.game_id],
                      IF prop.player_id \in DOMAIN stats_map THEN stats_map[prop.player_id]
                      ELSE <<>>,
                      DictGet(projection_map, <<prop.player_id, prop.prop_type, prop.game_id>>),
                      now_iso))

\* one pass of the loop body, lines 197-261: the row to append, if any
FeedLoopBody(db, fail, prop, players_map, games_map, stats_map, projection_map, now_iso) ==
    IF ~(Truthy(prop.player_id) /\ Truthy(prop.game_id) /\ Truthy(prop.prop_type)) THEN None
    ELSE IF prop.player_id \notin DOMAIN players_map \/ prop.game_id \notin DOMAIN games_map
    THEN None
    ELSE Some(FeedRow(db, fail, prop, players_map[prop.player_id], games_map[prop.game_id],
                      IF prop.player_id \in DOMAIN stats_map THEN stats_map[prop.player_id]
                      ELSE <<>>,
                      DictGet(projection_map, <<prop.player_id, prop.game_id, prop.prop_type>>),
                      now_iso))

\* ------------------------------------------------------------ the store and the bounds
\* Scaled chunk sizes.  The source reads players and games 200 ids at a
\* time, stats 25, projection snapshots 50, and upserts 100 rows at a time;
\* the model keeps the chunking and scales the sizes to its handful of rows.
IdChunkSize == 1
StatsChunkSize == 1
SnapshotChunkSize == 1
UpsertChunkSize == 1

MaxQuotes == 2
MaxRuns == 2
\* store failures in one behaviour
MaxFaults == 1
\* --hours and --limit of a run, in ticks of the model clock and rows
WindowHours == 2
ScanLimit == 3

RunIds == 1..MaxRuns

PlayersTable ==
    << [id |-> "p1", name |-> "A. Guard", team |-> "LAL", position |-> "G", sport |-> "NBA"],
       [id |-> "p2", name |-> "B. Wing", team |-> "BOS", position |-> "F", sport |-> "NBA"],
       [id |-> "p4", name |-> "rifler", team |-> "NAVI", position |-> "", sport |-> "CS2"] >>

GamesTable ==
    << [id |-> "g1", home_team |-> "LAL", away_team |-> "BOS", start_time |-> Some(10)] >>

DfsTable ==
    << [player_id |-> "p1", game_id |-> "g1", prop_type |-> "rebounds", source |-> "underdog",
        line |-> Some(Rat(6, 1)), scraped_at |-> 9] >>

StatRow(player_id, date, opponent, home, points, rebounds, assists) ==
    [player_id |-> player_id, date |-> date, opponent |-> opponent, home |-> home,
     vals |-> [points |-> points, rebounds |-> rebounds, assists |-> assists]]

\* the game log of the main specification: p1 has played, p2 and p4 have not
SeasonStats ==
    << StatRow("p1", 7, "BOS", TRUE, Some(24), Some(6), Some(5)),
       StatRow("p1", 9, "NYK", FALSE, Some(20), None, Some(7)) >>

SeasonInjuries ==
    << [player_id |-> "p1", status |-> "active", severity |-> Some("Probable"),
        impact_percentage |-> None, reported_date |-> 8] >>

\* what the ingestion jobs may insert into player_prop_odds
Quote(player_id, game_id, prop_type, line, book) ==
    [player_id |-> player_id, game_id |-> game_id, prop_type |-> prop_type,
     line |-> Some(line), over_price |-> Some(-110), under_price |-> Some(-110), book |-> book]

QuotePool ==
    { Quote("p1", "g1", "points", Rat(49, 2), "Bovada"),
      Quote("p1", "g1", "points", Rat(45, 2), "Bovada"),
      Quote("p1", "g1", "rebounds", Rat(11, 2), "DraftKings"),
      Quote("p2", "g1", "points", Rat(21, 2), "DraftKings"),
      Quote("p3", "g1", "points", Rat(15, 2), "Bovada"),
      Quote("p1", "g2", "points", Rat(49, 2), "DraftKings") }

SportArgs == {"", "NBA"}

VARIABLES
    clock,      \* the wall clock, in ticks
    odds,       \* table player_prop_odds, in insertion order
    statsTbl,   \* table player_game_stats
    injTbl,     \* table player_injuries
    projTbl,    \* table player_projection_snapshots
    feedTbl,    \* table prop_feed_snapshots
    runs,       \* the builder invocations
    lastWrite,  \* history: which invocation last upserted each projection key
    call        \* the function application under study (specifications of one function)

vars == <<clock, odds, statsTbl, injTbl, projTbl, feedTbl, runs, lastWrite, call>>

NoCall == [op |-> "none"]

Db == [odds |-> odds, stats |-> statsTbl, injuries |-> injTbl, games |-> GamesTable,
       players |-> PlayersTable, dfs |-> DfsTable]

\* ------------------------------------------------------------ builder invocations
\* An invocation is a process of its own: its cache (services.data_cache) is
\* empty when it starts and dies with it, so every map below is read from
\* the store.  The fields from `cause` on are history, not program state.
IdleRun ==
    [kind |-> "", pc |-> "idle", sport |-> "", props |-> <<>>,
     players_map |-> EmptyDict, games_map |-> EmptyDict, stats_map |-> EmptyDict,
     projection_map |-> EmptyDict,
     order |-> <<>>, latest |-> EmptyDict, bovada_lines |-> EmptyDict,
     now_iso |-> <<>>, rows |-> <<>>, idx |-> 0,
     cause |-> "", failedIds |-> {}, fetched |-> <<>>, seen |-> 0,
     nullKeys |-> {}, clean |-> TRUE, faults |-> 0, after |-> {}, tblEnd |-> <<>>]

Kinds == {"proj", "feed"}

RECURSIVE FaultsUpTo(_)
FaultsUpTo(r) == IF r = 0 THEN 0 ELSE runs[r].faults + FaultsUpTo(r - 1)

\* how many more store failures the behaviour may see
FaultsLeft == MaxFaults - FaultsUpTo(MaxRuns)
Active(run) == run.pc \notin {"idle", "done", "aborted"}
Ended(run) == run.pc \in {"done", "aborted"}

OutTable(kind) == IF kind = "proj" THEN projTbl ELSE feedTbl

\* the process exits: its maps die with it
FinishWith(run, pc, cause, table) ==
    [run EXCEPT !.pc = pc, !.cause = cause, !.tblEnd = table,
                !.players_map = EmptyDict, !.games_map = EmptyDict,
                !.stats_map = EmptyDict, !.projection_map = EmptyDict]

Finish(run, pc, cause) == FinishWith(run, pc, cause, OutTable(run.kind))

\* a row is inserted into player_prop_odds: the store gives it its id and
\* stamps created_at; an invocation that is running has its input changed
Inserted(q) ==
    /\ clock' = clock + 1
    /\ odds' = Append(odds, [id |-> Len(odds) + 1, created_at |-> Some(IsoFormat(clock + 1))] @@ q)
    /\ runs' = [r \in RunIds |-> IF Active(runs[r]) THEN [runs[r] EXCEPT !.clean = FALSE]
                                 ELSE runs[r]]

\* store_player_prop_odds for one offer: the row of the same player, game,
\* book, prop type and line has its prices updated in place (id and
\* created_at stay), and a row is inserted when there is none.  An update
\* that writes the prices the row already holds is no step
StoreOdds(q) ==
    /\ LET existing == {j \in 1..Len(odds) :
                           /\ odds[j].player_id = q.player_id /\ odds[j].game_id = q.game_id
                           /\ odds[j].book = q.book /\ odds[j].prop_type = q.prop_type
                           /\ odds[j].line = q.line}
           first == CHOOSE j \in existing : \A k \in existing : j <= k
           updated == [odds EXCEPT ![first].over_price = q.over_price,
                                   ![first].under_price = q.under_price]
       IN  IF existing # {}
           THEN /\ updated # odds
                /\ odds' = updated
                /\ UNCHANGED <<clock, runs>>
           ELSE Len(odds) < MaxQuotes /\ Inserted(q)
    /\ UNCHANGED <<statsTbl, injTbl, projTbl, feedTbl, lastWrite, call>>

\* an insert that looks for no existing row: create_player_props of
\* create_sample_data, and the insert of store_player_prop_odds when another
\* job has inserted the same offer since its lookup
Ingest(q) ==
    /\ Len(odds) < MaxQuotes
    /\ Inserted(q)
    /\ UNCHANGED <<statsTbl, injTbl, projTbl, feedTbl, lastWrite, call>>

\* get_players_map / get_games_map over the sorted ids, chunk after chunk
RECURSIVE ReadIdChunks(_, _, _, _)
ReadIdChunks(map, table, ids, k) ==
    IF k > NumChunks(ids, IdChunkSize) THEN map
    ELSE ReadIdChunks(ReadIdChunk(map, table, ChunkOf(ids, IdChunkSize, k)), table, ids, k + 1)

get_players_map(ids) == ReadIdChunks(EmptyDict, PlayersTable, ids, 1)
get_games_map(ids) == ReadIdChunks(EmptyDict, GamesTable, ids, 1)

RECURSIVE ReadStatsChunks(_, _, _, _, _, _)
ReadStatsChunks(stats_map, table, ids, limit_per_player, size, k) ==
    IF k > NumChunks(ids, size) THEN stats_map
    ELSE ReadStatsChunks(ReadStatsChunk(stats_map, table, ChunkOf(ids, size, k),
                                        limit_per_player),
                         table, ids, limit_per_player, size, k + 1)

\* get_recent_stats_map with chunks of `size` ids
RecentStatsIn(table, ids, limit_per_player, size) ==
    TrimStats(ReadStatsChunks([pid \in SeqToSet(ids) |-> <<>>], table, ids, limit_per_player,
                              size, 1),
              limit_per_player)

\* the builders' runs read their players in chunks of StatsChunkSize
get_recent_stats_map(table, ids, limit_per_player) ==
    RecentStatsIn(table, ids, limit_per_player, StatsChunkSize)

RECURSIVE ReadSnapshotChunks(_, _, _, _, _, _)
ReadSnapshotChunks(snapshots, table, ids, game_filter, prop_filter, k) ==
    IF k > NumChunks(ids, SnapshotChunkSize) THEN snapshots
    ELSE ReadSnapshotChunks(ReadSnapshotChunk(snapshots, table,
                                ChunkOf(ids, SnapshotChunkSize, k), game_filter, prop_filter),
                            table, ids, game_filter, prop_filter, k + 1)

get_projection_snapshots_map(table, ids, game_filter, prop_filter) ==
    ReadSnapshotChunks(EmptyDict, table, ids, game_filter, prop_filter, 1)

PlayerIds(props) == SortedIds(TruthyIds(props, "player_id"))
GameIds(props) == SortedIds(TruthyIds(props, "game_id"))

\* the feed builder between the fetch and the games read: players, sport
\* filter, dedupe
FeedPrep(props, sport) ==
    LET Deduped(players_map, filtered) ==
            [players_map |-> players_map, filtered |-> filtered, props |-> FeedDedupe(filtered)]
        Filtered(players_map) == Deduped(players_map, SportFilter(props, players_map, sport))
    IN  Filtered(get_players_map(PlayerIds(props)))

\* the chunked reads a builder makes of the tables no builder writes, in
\* order, for the window it fetched
ReadsOf(kind, sport, props) ==
    LET FeedReads(prep) ==
            << [ids |-> PlayerIds(props), size |-> IdChunkSize] >>
            \o (IF prep.filtered = <<>> THEN <<>>
                ELSE << [ids |-> GameIds(prep.props), size |-> IdChunkSize],
                        [ids |-> PlayerIds(prep.props), size |-> StatsChunkSize] >>)
    IN  IF props = <<>> THEN <<>>
        ELSE IF kind = "proj"
        THEN << [ids |-> PlayerIds(props), size |-> IdChunkSize],
                [ids |-> GameIds(props), size |-> IdChunkSize] >>
        ELSE FeedReads(FeedPrep(props, sport))

\* the projection builder after the fetch: players, games, sport filter,
\* dedupe, now_iso
ProjPrepared(base, now) ==
    LET Deduped(got, filtered, dd) ==
            IF filtered = <<>> THEN Finish(got, "done", "no props for sport")
            ELSE IF dd.order = <<>> THEN Finish(got, "done", "nothing to upsert")
            ELSE [got EXCEPT !.pc = "loop", !.props = filtered, !.order = dd.order,
                             !.latest = dd.latest, !.bovada_lines = dd.bovada_lines,
                             !.now_iso = IsoFormat(now)]
        Filtered(got, filtered) == Deduped(got, filtered, ProjDedupe(filtered))
        Mapped(players_map, games_map) ==
            Filtered([base EXCEPT !.players_map = players_map, !.games_map = games_map],
                     SportFilter(base.props, players_map, base.sport))
    IN  Mapped(get_players_map(PlayerIds(base.props)), get_games_map(GameIds(base.props)))

\* the feed builder after the fetch: players, sport filter, dedupe, games,
\* stats
FeedPrepared(base) ==
    LET Mapped(prep, got) ==
            IF prep.filtered = <<>> THEN Finish(got, "done", "no props for sport")
            ELSE [got EXCEPT !.pc = "snapshots", !.props = prep.props,
                             !.games_map = get_games_map(GameIds(prep.props)),
                             !.stats_map = get_recent_stats_map(statsTbl, PlayerIds(prep.props),
                                                                StatsPerPlayer)]
        Prepared(prep) == Mapped(prep, [base EXCEPT !.players_map = prep.players_map])
    IN  Prepared(FeedPrep(base.props, base.sport))

\* build_snapshots from _fetch_recent_props up to its first read of a table
\* that changes under it: the fetch, the early return on an empty window, the
\* player, game and stats maps, the sport filter and the dedupe; the
\* projection builder reads the clock for now_iso at the end of it
Start(r, kind, sport) ==
    /\ runs[r].pc = "idle"
    /\ \A o \in 1..(r - 1) : runs[o].pc # "idle" /\ runs[o].sport = sport
    /\ LET Stepped(next) ==
               /\ runs' = [runs EXCEPT ![r] = next]
               /\ clock' = IF next.pc = "loop" THEN clock + 1 ELSE clock
           Based(props, base) ==
               Stepped(IF props = <<>> THEN Finish(base, "done", "no props")
                       ELSE IF kind = "proj" THEN ProjPrepared(base, clock + 1)
                       ELSE FeedPrepared(base))
           Fetched(props) ==
               Based(props,
                     [IdleRun EXCEPT !.kind = kind, !.sport = sport, !.props = props,
                                     !.fetched = props, !.seen = Len(odds),
                                     !.after = {o \in RunIds : Ended(runs[o])}])
       IN  Fetched(FetchRecentProps(odds, clock, WindowHours, ScanLimit))
    /\ UNCHANGED <<odds, statsTbl, injTbl, projTbl, feedTbl, lastWrite, call>>

\* the store cannot be reached during one of these reads: the fetch (n = 0)
\* or chunk k of the n-th chunked read.  Nothing in data_cache or in
\* build_snapshots catches the exception
StartFails(r, kind, sport, n, k) ==
    /\ runs[r].pc = "idle"
    /\ FaultsLeft > 0
    /\ \A o \in 1..(r - 1) : runs[o].pc # "idle" /\ runs[o].sport = sport
    /\ LET base == [IdleRun EXCEPT !.kind = kind, !.sport = sport, !.seen = Len(odds),
                                   !.faults = 1,
                                   !.after = {o \in RunIds : Ended(runs[o])}]
           ReadFails(props, reads) ==
               /\ n \in 1..Len(reads)
               /\ k \in 1..NumChunks(reads[n].ids, reads[n].size)
               /\ runs' = [runs EXCEPT ![r] =
                      Finish([base EXCEPT !.props = props, !.fetched = props,
                                 !.failedIds = SeqToSet(ChunkOf(reads[n].ids, reads[n].size, k))],
                             "aborted", "read")]
           Fetched(props) == ReadFails(props, ReadsOf(kind, sport, props))
       IN  \/ /\ n = 0 /\ k = 1
              /\ runs' = [runs EXCEPT ![r] = Finish(base, "aborted", "fetch")]
           \/ Fetched(FetchRecentProps(odds, clock, WindowHours, ScanLimit))
    /\ UNCHANGED <<clock, odds, statsTbl, injTbl, projTbl, feedTbl, lastWrite, call>>

\* the lookups that raise in pass i of a loop, when the store is out of
\* reach during the passes in `failed`
FailIn(failed, i, lookups) == IF i \in failed THEN lookups ELSE {}

RECURSIVE ProjRowsFrom(_, _, _, _)
ProjRowsFrom(db, failed, run, i) ==
    IF i > Len(run.order) THEN <<>>
    ELSE OptSeq(ProjLoopBody(db, FailIn(failed, i, Lookups), run.order[i],
                             run.latest[run.order[i]], run.players_map, run.games_map,
                             run.bovada_lines, run.now_iso))
         \o ProjRowsFrom(db, failed, run, i + 1)

\* history: the keys with a known player and game for which
\* calculate_projection gave no projected line
NullKeys(db, failed, run) ==
    LET Null(j, key, matchup) ==
            IsNone(calculate_projection(db, FailIn(failed, j, Lookups), key[1], key[3],
                       matchup.opponent, matchup.is_home, key[2],
                       DictGet(run.bovada_lines, key)).value.projected_line)
        Resolved(j, key) ==
            /\ key[1] \in DOMAIN run.players_map
            /\ key[2] \in DOMAIN run.games_map
            /\ Null(j, key, ResolveMatchup(run.players_map[key[1]].team, run.games_map[key[2]]))
    IN  { run.order[i] : i \in { j \in 1..Len(run.order) : Resolved(j, run.order[j]) } }

\* the projection builder's loop over the deduplicated keys
ProjLoop(r, failed) ==
    /\ runs[r].pc = "loop" /\ runs[r].kind = "proj"
    /\ failed \subseteq 1..Len(runs[r].order)
    /\ Cardinality(failed) <= FaultsLeft
    /\ LET Looped(next) ==
               IF next.rows = <<>> THEN Finish(next, "done", "nothing to upsert")
               ELSE [next EXCEPT !.pc = "upsert", !.idx = 0]
       IN  runs' = [runs EXCEPT ![r] =
                Looped([@ EXCEPT !.rows = ProjRowsFrom(Db, failed, runs[r], 1),
                                 !.nullKeys = NullKeys(Db, failed, runs[r]),
                                 !.clean = @ /\ failed = {},
                                 !.faults = @ + Cardinality(failed)])]
    /\ UNCHANGED <<clock, odds, statsTbl, injTbl, projTbl, feedTbl, lastWrite, call>>

RECURSIVE FeedRowsFrom(_, _, _, _, _)
FeedRowsFrom(db, failed, run, projection_map, i) ==
    IF i > Len(run.props) THEN <<>>
    ELSE OptSeq(FeedLoopBody(db, FailIn(failed, i, {"prizepicks", "underdog"}), run.props[i],
                             run.players_map, run.games_map, run.stats_map,
                             projection_map, run.now_iso))
         \o FeedRowsFrom(db, failed, run, projection_map, i + 1)

\* the feed builder from get_projection_snapshots_map to the end of its loop:
\* the snapshot map, now_iso, and one pass per deduplicated quote (the passes
\* read only the DFS lines, which no builder writes)
FeedLoop(r, failed) ==
    /\ runs[r].pc = "snapshots"
    /\ failed \subseteq 1..Len(runs[r].props)
    /\ Cardinality(failed) <= FaultsLeft
    /\ LET Looped(next) ==
               IF next.rows = <<>> THEN Finish(next, "done", "nothing to upsert")
               ELSE [next EXCEPT !.pc = "upsert", !.idx = 0]
           Passed(now, map) ==
               Looped([now EXCEPT !.rows = FeedRowsFrom(Db, failed, now, map, 1),
                                  !.clean = @ /\ failed = {},
                                  !.faults = @ + Cardinality(failed)])
           Mapped(map) ==
               Passed([runs[r] EXCEPT !.projection_map = map, !.now_iso = IsoFormat(clock + 1)],
                      map)
       IN  runs' = [runs EXCEPT ![r] =
                Mapped(get_projection_snapshots_map(projTbl, PlayerIds(runs[r].props),
                           TruthyIds(runs[r].props, "game_id"),
                           TruthyIds(runs[r].props, "prop_type")))]
    /\ clock' = clock + 1
    /\ UNCHANGED <<odds, statsTbl, injTbl, projTbl, feedTbl, lastWrite, call>>

\* chunk k of get_projection_snapshots_map raises
ReadSnapshotsFails(r, k) ==
    /\ runs[r].pc = "snapshots"
    /\ FaultsLeft > 0
    /\ LET ids == PlayerIds(runs[r].props)
       IN  /\ k \in 1..NumChunks(ids, SnapshotChunkSize)
           /\ runs' = [runs EXCEPT ![r] =
                  Finish([runs[r] EXCEPT !.failedIds = SeqToSet(ChunkOf(ids, SnapshotChunkSize, k)),
                                         !.faults = 1],
                         "aborted", "read")]
    /\ UNCHANGED <<clock, odds, statsTbl, injTbl, projTbl, feedTbl, lastWrite, call>>

\* rows[idx : idx + 100]
UpsertChunkOf(run) ==
    SubSeq(run.rows, run.idx + 1,
           IF run.idx + UpsertChunkSize < Len(run.rows) THEN run.idx + UpsertChunkSize
           ELSE Len(run.rows))

RECURSIVE NoteWrites(_, _, _, _)
NoteWrites(lw, chunk, i, r) ==
    IF i > Len(chunk) THEN lw
    ELSE NoteWrites(DictSet(lw, KeyOf(chunk[i], ProjConflictKey), r), chunk, i + 1, r)

\* an invocation whose input or output table another one writes meanwhile
Disturbed(other, writer) ==
    Active(other) /\ (other.kind = writer.kind \/ (other.kind = "feed" /\ writer.kind = "proj"))

\* one chunk of the upsert loop
Upsert(r) ==
    /\ runs[r].pc = "upsert"
    /\ LET run == runs[r]
           chunk == UpsertChunkOf(run)
           res == IF run.kind = "proj" THEN UpsertProj(projTbl, chunk)
                  ELSE UpsertFeed(feedTbl, chunk)
           idx == run.idx + UpsertChunkSize
           wrote == [run EXCEPT !.idx = idx]
           me == IF res.raised THEN FinishWith(run, "aborted", "upsert", OutTable(run.kind))
                 ELSE IF idx >= Len(run.rows) THEN FinishWith(wrote, "done", "", res.value)
                 ELSE wrote
       IN  /\ runs' = [o \in RunIds |->
                  IF o = r THEN me
                  ELSE IF ~res.raised /\ Disturbed(runs[o], run)
                  THEN [runs[o] EXCEPT !.clean = FALSE]
                  ELSE runs[o]]
           /\ projTbl' = IF run.kind = "proj" /\ ~res.raised THEN res.value ELSE projTbl
           /\ feedTbl' = IF run.kind = "feed" /\ ~res.raised THEN res.value ELSE feedTbl
           /\ lastWrite' = IF run.kind = "proj" /\ ~res.raised
                           THEN NoteWrites(lastWrite, chunk, 1, r) ELSE lastWrite
    /\ UNCHANGED <<clock, odds, statsTbl, injTbl, call>>

\* the store cannot be reached for this chunk: the exception leaves
\* build_snapshots, the chunks already upserted stay
UpsertFails(r) ==
    /\ runs[r].pc = "upsert"
    /\ FaultsLeft > 0
    /\ runs' = [runs EXCEPT ![r] = Finish([runs[r] EXCEPT !.faults = @ + 1], "aborted", "upsert")]
    /\ UNCHANGED <<clock, odds, statsTbl, injTbl, projTbl, feedTbl, lastWrite, call>>

Init ==
    /\ clock = 0
    /\ odds = <<>>
    /\ statsTbl = SeasonStats
    /\ injTbl = SeasonInjuries
    /\ projTbl = <<>>
    /\ feedTbl = <<>>
    /\ runs = [r \in RunIds |-> IdleRun]
    /\ lastWrite = EmptyDict
    /\ call = NoCall

Next ==
    \/ \E q \in QuotePool : StoreOdds(q)
    \/ \E q \in QuotePool : Ingest(q)
    \/ \E r \in RunIds, kind \in Kinds, sport \in SportArgs : Start(r, kind, sport)
    \/ \E r \in RunIds, kind \in Kinds, sport \in SportArgs, n \in 0..3, k \in 1..MaxQuotes :
          StartFails(r, kind, sport, n, k)
    \/ \E r \in RunIds, failed \in SUBSET (1..MaxQuotes) : ProjLoop(r, failed)
    \/ \E r \in RunIds, failed \in SUBSET (1..MaxQuotes) : FeedLoop(r, failed)
    \/ \E r \in RunIds, k \in 1..MaxQuotes : ReadSnapshotsFails(r, k)
    \/ \E r \in RunIds : Upsert(r)
    \/ \E r \in RunIds : UpsertFails(r)

Spec == Init /\ [][Next]_vars

\* ============================================================ properties
RowsOf(table) == {table[i] : i \in 1..Len(table)}
\* the rows of the chunks an invocation has upserted: rows[0 : idx]
Written(run) == Take(run.rows, run.idx)
WrittenBy(r) == RowsOf(Written(runs[r]))
CompositeKey(row) == <<row.player_id, row.game_id, row.prop_type>>
FeedCompositeKey(row) ==
    <<row.player_id, row.game_id, row.prop_type, Float(Val(row.line)), row.book>>

\* C1: after any sequence of Prop Feed Snapshot Builder runs the prop feed
\* snapshot table holds at most one row per
\* (player, game, prop-category, line, book).
\* The code upserts on prop_id, the id of the quote: a newer quote of the same
\* composite key has a new id and adds a second row.
C1_FeedOneRowPerCompositeKey ==
    \A i, j \in 1..Len(feedTbl) :
        FeedCompositeKey(feedTbl[i]) = FeedCompositeKey(feedTbl[j]) => i = j

\* C2: after any sequence of Projection Snapshot Builder runs, sequential or
\* overlapping, the projection snapshot table holds at most one row per
\* (player, game, prop-category), and every run upserts at most one row per
\* such key.
C2_ProjOneRowPerKey ==
    /\ \A i, j \in 1..Len(projTbl) :
           CompositeKey(projTbl[i]) = CompositeKey(projTbl[j]) => i = j
    /\ \A r \in RunIds : runs[r].kind = "proj" =>
           \A i, j \in 1..Len(runs[r].rows) :
               CompositeKey(runs[r].rows[i]) = CompositeKey(runs[r].rows[j]) => i = j

\* two projection runs have both upserted a row of one key, from different
\* quotes, and the table holds the one row
C2_Witness ==
    /\ runs[1].kind = "proj" /\ runs[2].kind = "proj"
    /\ runs[1].pc = "done" /\ runs[2].pc = "done"
    /\ \E a \in WrittenBy(1), b \in WrittenBy(2) :
           /\ CompositeKey(a) = CompositeKey(b)
           /\ a.source_prop_id # b.source_prop_id
    /\ Len(projTbl) = 1

\* ------------------------------------------------------------ specification of the dedupe step
MaxFetched == 3

\* quotes as the store may return them: ids, lines, books and timestamps may
\* be null; timestamp strings are of different lengths ("1" < "10" < "2")
StoredQuote(player_id, line, book, created_at) ==
    [player_id |-> player_id, game_id |-> "g1", prop_type |-> "points", line |-> line,
     over_price |-> Some(-110), under_price |-> None, book |-> book, created_at |-> created_at]

FetchedPool ==
    { StoredQuote("p1", Some(<<49, 2>>), "Bovada", Some(<<1>>)),
      StoredQuote("p1", Some(<<49, 2>>), "Bovada", Some(<<1, 0>>)),
      StoredQuote("p1", Some(<<49, 2>>), "Bovada", Some(<<2>>)),
      StoredQuote("p1", Some(<<49, 2>>), "Bovada", None),
      StoredQuote("p1", Some(<<98, 4>>), "Bovada", Some(<<1, 5>>)),
      StoredQuote("p1", Some(<<45, 2>>), "DraftKings", Some(<<2>>)),
      StoredQuote("p1", None, "Bovada", Some(<<3>>)),
      StoredQuote("", Some(<<49, 2>>), "Bovada", Some(<<3>>)),
      StoredQuote("p2", Some(<<49, 2>>), "", Some(<<1>>)) }

\* a fetched list: the store gives every row its id
FetchedLists ==
    UNION { { [i \in 1..n |-> [id |-> i] @@ f[i]] : f \in [1..n -> FetchedPool] }
            : n \in 0..MaxFetched }

InitDedupe ==
    /\ clock = 0
    /\ odds = <<>>
    /\ statsTbl = SeasonStats
    /\ injTbl = SeasonInjuries
    /\ projTbl = <<>>
    /\ feedTbl = <<>>
    /\ runs = [r \in RunIds |-> IdleRun]
    /\ lastWrite = EmptyDict
    /\ \E props \in FetchedLists : call = [op |-> "fetched", props |-> props]

\* build_projection_snapshots._dedupe_props(props)
DedupeForProjections ==
    /\ call.op = "fetched"
    /\ call' = [op |-> "proj_dedupe", props |-> call.props, out |-> ProjDedupe(call.props)]
    /\ UNCHANGED <<clock, odds, statsTbl, injTbl, projTbl, feedTbl, runs, lastWrite>>

\* build_prop_feed_snapshots._dedupe_props(props)
DedupeForFeed ==
    /\ call.op = "fetched"
    /\ call' = [op |-> "feed_dedupe", props |-> call.props, out |-> FeedDedupe(call.props)]
    /\ UNCHANGED <<clock, odds, statsTbl, injTbl, projTbl, feedTbl, runs, lastWrite>>

NextDedupe == DedupeForProjections \/ DedupeForFeed

SpecDedupe == InitDedupe /\ [][NextDedupe]_vars

\* the quotes of a list that carry a whole key
Keyed(props, feed) ==
    { q \in RowsOf(props) :
        /\ q.player_id # "" /\ q.game_id # "" /\ q.prop_type # ""
        /\ feed => (q.book # "" /\ q.line # None) }

\* `kept` holds exactly one quote per key of `keyed`, a quote of `keyed` whose
\* timestamp string no quote of its key exceeds
KeepsGreatest(kept, keyed, Key(_)) ==
    /\ kept \subseteq keyed
    /\ \A q \in keyed : \E k \in kept : Key(k) = Key(q)
    /\ \A k1, k2 \in kept : Key(k1) = Key(k2) => k1 = k2
    /\ \A k \in kept, q \in keyed :
           Key(k) = Key(q) => ~StrGreater(OrEmpty(q.created_at), OrEmpty(k.created_at))

\* C3: for any list of fetched quotes, in any order, the deduplication step of
\* each Snapshot Builder keeps exactly one quote per key, and the quote kept
\* has the lexicographically greatest timestamp string among the quotes of
\* that key.
C3_DedupeKeepsGreatest ==
    /\ call.op = "proj_dedupe" =>
           /\ KeepsGreatest({call.out.latest[k] : k \in DOMAIN call.out.latest},
                            Keyed(call.props, FALSE), CompositeKey)
           /\ \A k \in DOMAIN call.out.latest : CompositeKey(call.out.latest[k]) = k
    /\ call.op = "feed_dedupe" =>
           /\ KeepsGreatest(RowsOf(call.out), Keyed(call.props, TRUE), FeedCompositeKey)
           /\ \A i, j \in 1..Len(call.out) : call.out[i] = call.out[j] => i = j

\* a later quote of a key replaced the first one seen, next to a quote of
\* another key
C3_Witness ==
    /\ call.op = "feed_dedupe"
    /\ Len(call.props) = 3
    /\ Len(call.out) = 2
    /\ \E i \in 2..3 : call.props[i] \in RowsOf(call.out)
                       /\ FeedCompositeKey(call.props[i]) = FeedCompositeKey(call.props[1])
                       /\ call.props[1] \notin RowsOf(call.out)

\* ------------------------------------------------------------ the builders
KeysIn(rows) == {CompositeKey(row) : row \in rows}
ProjRuns == {r \in RunIds : runs[r].kind = "proj"}
BovadaQuotes(props, key) ==
    {q \in RowsOf(props) : CompositeKey(q) = key /\ q.book = "Bovada" /\ q.line # None}

\* C4: when the fetched window holds several Bovada quotes with different
\* lines for one (player, game, prop-category), the line the Projection
\* Snapshot Builder passes to the Projection Builder for that key is the line
\* of the most recent of them.
\* The code overwrites bovada_lines[key] quote after quote while the list is
\* ordered newest first, so the oldest Bovada line is the one passed.
C4_PassesMostRecentBovadaLine ==
    \A r \in ProjRuns : \A key \in RowsOf(runs[r].order) :
        LET bovada == BovadaQuotes(runs[r].props, key)
        IN  (\E a, b \in bovada : a.line # b.line) =>
                \E newest \in bovada :
                    /\ \A q \in bovada : ~StrGreater(Val(q.created_at), Val(newest.created_at))
                    /\ PassedBovadaLine(runs[r].bovada_lines, key) = newest.line

\* invocation b started after invocation a had ended, fetched the same quotes
\* from an unchanged quote table, and neither met a failure, an ingestion or
\* another invocation's write while it ran
RanTwice(a, b) ==
    /\ a # b
    /\ runs[a].kind = runs[b].kind
    /\ a \in runs[b].after
    /\ runs[a].pc = "done" /\ runs[b].pc = "done"
    /\ runs[a].clean /\ runs[b].clean
    /\ runs[a].seen = runs[b].seen
    /\ runs[a].fetched = runs[b].fetched

Without(row, fields) == [f \in DOMAIN row \ fields |-> row[f]]
TableWithout(table, fields) == [i \in 1..Len(table) |-> Without(table[i], fields)]

\* the original statement of C5: each Snapshot Builder is idempotent; run
\* twice in immediate succession on unchanged input it leaves its output
\* table with the same key set and, in every row, the same value in every
\* field except the snapshot timestamp field.
C5_SameExceptSnapshotAt ==
    \A a, b \in RunIds : RanTwice(a, b) =>
        TableWithout(runs[b].tblEnd, {"snapshot_at"})
        = TableWithout(runs[a].tblEnd, {"snapshot_at"})

RunStamps == {"snapshot_at", "created_at", "updated_at"}

\* C5 (amended): run twice in immediate succession on unchanged input, a
\* Snapshot Builder leaves its output table with the same key set and, in
\* every row, the same value in every field except the three fields that
\* carry the time of the run: snapshot_at, created_at and updated_at.
C5_SameExceptRunStamps ==
    \A a, b \in RunIds : RanTwice(a, b) =>
        TableWithout(runs[b].tblEnd, RunStamps) = TableWithout(runs[a].tblEnd, RunStamps)

\* the Projection Snapshot Builder ran twice on the same two quotes and wrote
\* its row both times
C5_Witness ==
    /\ RanTwice(1, 2)
    /\ runs[1].kind = "proj"
    /\ Len(runs[1].fetched) = 2
    /\ WrittenBy(1) # {} /\ WrittenBy(2) # {}
    /\ runs[2].tblEnd # runs[1].tblEnd

\* two projection invocations that overlapped, each to its end
Overlapped(a, b) ==
    /\ a # b
    /\ runs[a].kind = "proj" /\ runs[b].kind = "proj"
    /\ runs[a].pc = "done" /\ runs[b].pc = "done"
    /\ a \notin runs[b].after /\ b \notin runs[a].after

Stored(key) == {row \in RowsOf(projTbl) : CompositeKey(row) = key}

\* the original statement of C6: when two invocations of the Projection
\* Snapshot Builder overlap, the row finally stored for each key written by
\* both is the one of the invocation with the later snapshot timestamp.
C6_LaterSnapshotWins ==
    \A a, b \in RunIds : Overlapped(a, b) /\ StrGreater(runs[b].now_iso, runs[a].now_iso) =>
        \A key \in KeysIn(WrittenBy(a)) \cap KeysIn(WrittenBy(b)) :
            \A row \in Stored(key) : row.snapshot_at = runs[b].now_iso

\* C6 (amended): when invocations of the Projection Snapshot Builder overlap,
\* the row stored for a key is the one of the invocation whose upsert of that
\* key ran last, whichever snapshot timestamp it carries.
C6_LastWriterWins ==
    \A key \in DOMAIN lastWrite :
        /\ Cardinality(Stored(key)) = 1
        /\ Stored(key) \subseteq WrittenBy(lastWrite[key])

\* two overlapped invocations wrote one key, and the row stored is the one
\* with the earlier snapshot timestamp
C6_Witness ==
    /\ Overlapped(1, 2)
    /\ StrGreater(runs[2].now_iso, runs[1].now_iso)
    /\ \E key \in KeysIn(WrittenBy(1)) \cap KeysIn(WrittenBy(2)) :
           /\ lastWrite[key] = 1
           /\ \E row \in Stored(key) : row.snapshot_at = runs[1].now_iso

Known(table, id) == \E i \in 1..Len(table) : table[i].id = id

\* the fetched quotes of an invocation that no failed chunk read touches and
\* that the builder has a player, a game and the requested sport for
Unaffected(run) ==
    { q \in RowsOf(run.fetched) :
        /\ Known(PlayersTable, q.player_id) /\ Known(GamesTable, q.game_id)
        /\ q.player_id \notin run.failedIds /\ q.game_id \notin run.failedIds
        /\ run.sport # "" => \E i \in 1..Len(PlayersTable) :
               PlayersTable[i].id = q.player_id /\ PlayersTable[i].sport = run.sport }

\* C7: when a single-record failure occurs during a builder run (missing
\* player, missing game, or an error reading one chunk of players, games,
\* stats or projection snapshots), the run skips the affected records,
\* continues, and still upserts the snapshots of all unaffected records; it
\* does not abort.
\* The chunked reads of services.data_cache are not guarded: the exception
\* leaves build_snapshots and nothing is upserted.
C7_SkipsAndContinues ==
    \A r \in RunIds :
        Ended(runs[r]) /\ runs[r].cause \notin {"fetch", "upsert"} =>
            \A q \in Unaffected(runs[r]) :
                /\ runs[r].pc = "done"
                /\ \/ runs[r].kind = "proj" /\ CompositeKey(q) \in runs[r].nullKeys
                   \/ \E row \in WrittenBy(r) : CompositeKey(row) = CompositeKey(q)

\* C8: an invocation that fails because the store cannot be reached leaves
\* no partial set of snapshot rows behind: at its end either all the rows it
\* produced have been upserted or none has, also when the failure falls
\* between two upsert chunks.
\* The chunks are separate statements: those before the failure stay.
C8_AllOrNothing ==
    \A r \in RunIds :
        Ended(runs[r]) => Written(runs[r]) = <<>> \/ Written(runs[r]) = runs[r].rows

\* C10: in one run the Projection Snapshot Builder upserts exactly one row for
\* every deduplicated (player, game, prop-category) key whose player and game
\* records exist and whose projection is non-null, and no row for any other
\* key.
C10_OneRowPerProjectedKey ==
    \A r \in ProjRuns : runs[r].pc = "done" =>
        LET rows == Written(runs[r])
            due == { key \in KeysIn(Keyed(runs[r].props, FALSE)) :
                        /\ Known(PlayersTable, key[1]) /\ Known(GamesTable, key[2])
                        /\ key \notin runs[r].nullKeys }
        IN  /\ KeysIn(RowsOf(rows)) = due
            /\ \A i, j \in 1..Len(rows) : CompositeKey(rows[i]) = CompositeKey(rows[j]) => i = j
            /\ \A row \in RowsOf(rows) : row.projected_line # None

\* a run over a key with a projection and a key without one
C10_Witness ==
    \E r \in ProjRuns :
        /\ runs[r].pc = "done"
        /\ Len(runs[r].order) = 2
        /\ Cardinality(runs[r].nullKeys) = 1
        /\ Len(Written(runs[r])) = 1
        /\ Len(projTbl) = 1

\* ------------------------------------------------------------ the feed's join
\* the projection fields of a feed row against the snapshot table as it
\* stood when the builder read it
JoinsProjection(row, table) ==
    LET stored == {s \in RowsOf(table) : CompositeKey(s) = CompositeKey(row)}
    IN  IF stored = {}
        THEN /\ row.projection_line = None
             /\ row.projection_confidence = None
             /\ row.projection_baseline = None
             /\ row.projection_bovada_line = None
        ELSE \E s \in stored :
                 /\ row.projection_line = s.projected_line
                 /\ row.projection_confidence = Some(s.confidence)
                 /\ row.projection_baseline = s.baseline_source
                 /\ row.projection_bovada_line = s.bovada_line

\* the games of the row's player in the game log that carry the row's stat
GamesWithValue(row) ==
    Cardinality({i \in 1..Len(statsTbl) :
                    /\ statsTbl[i].player_id = row.player_id
                    /\ ~IsNone(get_prop_value_from_stat(statsTbl[i], row.prop_type))})

\* the hit rate of a feed row counts the player's games in the game log
CountsGameLog(row) ==
    row.hitrate_games = IF GamesWithValue(row) = 0 THEN None ELSE Some(GamesWithValue(row))

\* C11: the step in which the Prop Feed builder reads the projection
\* snapshots and builds its rows gives every row the projected line,
\* confidence, baseline source and book line of the Projection Snapshot row
\* stored for the same (player, game, prop-category) at that moment, and
\* nulls when no such row is stored; the step writes no projection snapshot
\* (the builder never projects), and the hit rate of every row is counted
\* from the player's game log.
C11_JoinsStoredProjection ==
    [][\A r \in RunIds :
          (runs[r].pc = "snapshots" /\ runs'[r].pc \in {"upsert", "done"}) =>
              /\ projTbl' = projTbl
              /\ \A i \in 1..Len(runs'[r].rows) :
                     /\ JoinsProjection(runs'[r].rows[i], projTbl)
                     /\ CountsGameLog(runs'[r].rows[i])]_vars

\* a feed run has built one row with the projection of a stored snapshot
\* and one row with nulls, for a stat of the same player that
\* calculate_projection would project but no snapshot holds
C11_Witness ==
    \E r \in RunIds :
        /\ runs[r].kind = "feed" /\ runs[r].pc = "done"
        /\ \E i, j \in 1..Len(runs[r].rows) :
               /\ runs[r].rows[i].projection_line # None
               /\ runs[r].rows[i].hitrate_games # None
               /\ runs[r].rows[j].projection_line = None
               /\ runs[r].rows[j].player_id = runs[r].rows[i].player_id
               /\ ~IsNone(calculate_projection(Db, {}, runs[r].rows[j].player_id,
                              runs[r].rows[j].prop_type, runs[r].rows[j].opponent,
                              runs[r].rows[j].is_home, runs[r].rows[j].game_id,
                              None).value.projected_line)

\* ------------------------------------------------------------ specification of calculate_projection
\* the quote table of this specification: one Bovada quote for p1
CalcOdds ==
    << [id |-> 1, created_at |-> Some(IsoFormat(1))]
       @@ Quote("p1", "g1", "points", Rat(45, 2), "Bovada") >>

CalcArgs ==
    [fail : SUBSET Lookups, player_id : {"p1", "p2"}, prop_type : {"points"},
     game_id : {"g1", ""}, bovada_line : {None, Some(Rat(49, 2))}]

InitCalc ==
    /\ clock = 1
    /\ odds = CalcOdds
    /\ statsTbl = SeasonStats
    /\ injTbl = SeasonInjuries
    /\ projTbl = <<>>
    /\ feedTbl = <<>>
    /\ runs = [r \in RunIds |-> IdleRun]
    /\ lastWrite = EmptyDict
    /\ \E args \in CalcArgs : call = [op |-> "args", args |-> args]

\* calculate_projection(player_id, prop_type, opponent_team, is_home, game_id,
\* bovada_line) for a player of the home team of g1
Calculate ==
    /\ call.op = "args"
    /\ call' = [op |-> "calculate_projection", args |-> call.args,
                out |-> calculate_projection(Db, call.args.fail, call.args.player_id,
                            call.args.prop_type, "BOS", TRUE, call.args.game_id,
                            call.args.bovada_line)]
    /\ UNCHANGED <<clock, odds, statsTbl, injTbl, projTbl, feedTbl, runs, lastWrite>>

NextCalc == Calculate

SpecCalc == InitCalc /\ [][NextCalc]_vars

Failed(lookups) == call.args.fail \cap lookups # {}

\* C9: calculate_projection never raises: whatever subset of its store
\* lookups fails, it returns either the null-projection result or a
\* projection in which each failed lookup contributed its neutral default
\* (multiplier 1.0, empty sample, no book line).
C9_NeverRaises ==
    call.op = "calculate_projection" =>
        /\ ~call.out.raised
        /\ \/ call.out.value = NullProjection
           \/ LET p == call.out.value IN
              /\ p.projected_line # None
              /\ Failed({"defense"}) => p.factors.defense_adjustment = ROne
              /\ Failed({"recent20", "matchup"}) => p.factors.matchup_adjustment = ROne
              /\ Failed({"home", "away"}) => p.factors.home_away_adjustment = ROne
              /\ Failed({"injury"}) => /\ p.factors.injury_adjustment = ROne
                                       /\ p.injury_status = Some("healthy")
              /\ Failed({"game", "rest"}) => p.factors.rest_adjustment = ROne
              /\ Failed({"game"}) => p.factors.rest_days = None
              /\ Failed({"recent15"}) => p.sample_size = 0 /\ p.factors.player_avg = RZero
              /\ (Failed({"bovada"}) /\ call.args.bovada_line = None) => p.bovada_line = None

\* the injury lookup and the recent-games lookup failed for an injured
\* player, and the projection stands on the book line with neutral factors
C9_Witness ==
    /\ call.op = "calculate_projection"
    /\ call.args.fail = {"injury", "recent15", "rest"}
    /\ call.args.player_id = "p1"
    /\ call.out.value.projected_line # None
    /\ call.out.value.factors.injury_adjustment = ROne
    /\ calculate_projection(Db, {}, "p1", "points", "BOS", TRUE, call.args.game_id,
                            call.args.bovada_line).value.factors.injury_adjustment # ROne

\* ------------------------------------------------------------ specification of the calculators
\* the longest game log of this specification
MaxGames == 16

\* how the points column of a game log runs, game 1 being the newest
ValuePatterns == {"flat", "rising", "low", "zero", "holes", "gaps", "spiky"}

PatternValue(vals, i) ==
    CASE vals = "flat" -> Some(13)
      [] vals = "rising" -> Some(2 * i)
      [] vals = "low" -> Some(3)
      [] vals = "zero" -> Some(0)
      [] vals = "holes" -> IF i % 2 = 0 THEN None ELSE Some(10 + i)
      [] vals = "spiky" -> IF i % 4 = 0 THEN Some(40) ELSE Some(0)
      [] OTHER -> IF i <= 2 THEN Some(10 * i) ELSE None

\* the dates of the newest game of a log; the target game g1 is played on
\* day 10
LastDates == {7, 8, 11}

\* a log of n games of p1 on consecutive days up to `last`, stored oldest
\* first.  A mixed log has two games in three against BOS and every other
\* game at home; a road log has every game away at NYK
GameLog(n, vals, last, mixed) ==
    [j \in 1..n |->
        LET i == n + 1 - j
        IN  StatRow("p1", last - (i - 1),
                    IF mixed /\ i % 3 # 0 THEN "BOS" ELSE "NYK",
                    mixed /\ i % 2 = 0,
                    PatternValue(vals, i), Some(5), None)]

GameLogs ==
    {GameLog(n, vals, last, mixed) :
         n \in 0..MaxGames, vals \in ValuePatterns, last \in LastDates, mixed \in {TRUE}}

Injury(player_id, status, severity, impact_percentage, reported_date) ==
    [player_id |-> player_id, status |-> status, severity |-> severity,
     impact_percentage |-> impact_percentage, reported_date |-> reported_date]

Severities == {"Out", "Doubtful", "Questionable", "Probable", "Day-To-Day", ""}
ImpactPercentages == {None, Some(0), Some(40), Some(150), Some(-20)}

\* the injury tables of this specification: none, one active record of p1 of
\* every severity and percentage, a record without severity, a resolved
\* record, a record of another player, and two active records of p1 stored
\* in either order
InjuryReports ==
    {<<>>}
    \cup {<<Injury("p1", "active", Some(sev), pct, 8)>> :
              sev \in Severities, pct \in ImpactPercentages}
    \cup {<<Injury("p1", "active", None, Some(40), 8)>>,
          <<Injury("p1", "resolved", Some("Out"), None, 8)>>,
          <<Injury("p3", "active", Some("Out"), None, 8)>>,
          <<Injury("p1", "active", Some("Out"), None, 5),
            Injury("p1", "active", Some("Probable"), Some(40), 8)>>,
          <<Injury("p1", "active", Some("Probable"), Some(40), 8),
            Injury("p1", "active", Some("Out"), None, 5)>>}

\* the arguments: a player with or without games, a stat the log carries or
\* not, an opponent on record, off record or unknown, the venue, and the
\* store up or down
AdjustArgs ==
    [fail : {{}, Lookups}, player_id : {"p1", "p2"}, prop_type : {"points", "threes"},
     opponent_team : {"BOS", "MIA", ""}, is_home : BOOLEAN]

InitAdjust ==
    /\ clock = 1
    /\ odds = CalcOdds
    /\ \/ statsTbl \in GameLogs /\ injTbl = SeasonInjuries
       \/ statsTbl = SeasonStats /\ injTbl \in InjuryReports
    /\ projTbl = <<>>
    /\ feedTbl = <<>>
    /\ runs = [r \in RunIds |-> IdleRun]
    /\ lastWrite = EmptyDict
    /\ \E args \in AdjustArgs : call = [op |-> "args", args |-> args]

Returns(op, out) ==
    /\ call.op = "args"
    /\ call' = [op |-> op, args |-> call.args, out |-> out]
    /\ UNCHANGED <<clock, odds, statsTbl, injTbl, projTbl, feedTbl, runs, lastWrite>>

DefenseRating ==
    Returns("calculate_opponent_defense_rating",
            calculate_opponent_defense_rating(Db, call.args.fail, call.args.opponent_team,
                                              call.args.prop_type))

MatchupAdjustment ==
    Returns("calculate_opponent_adjustment",
            calculate_opponent_adjustment(Db, call.args.fail, call.args.player_id,
                                          call.args.opponent_team, call.args.prop_type))

HomeAwayAdjustment ==
    Returns("calculate_home_away_adjustment",
            calculate_home_away_adjustment(Db, call.args.fail, call.args.player_id,
                                           call.args.prop_type, call.args.is_home))

InjuryStatus ==
    Returns("get_injury_status", get_injury_status(Db, call.args.fail, call.args.player_id))

\* the day of the target game g1
TargetDate == Val(GamesTable[1].start_time)

\* get_player_rest_days for the game g1, and calculate_rest_adjustment of
\* its result
RestAdjustment ==
    LET Rested(rest_days) ==
            Ok([rest_days |-> rest_days.value,
                rest_adjustment |-> calculate_rest_adjustment(rest_days.value)])
    IN  Returns("calculate_rest_adjustment",
                Rested(get_player_rest_days(Db, call.args.fail, call.args.player_id,
                                            TargetDate)))

NextAdjust ==
    \/ DefenseRating
    \/ MatchupAdjustment
    \/ HomeAwayAdjustment
    \/ InjuryStatus
    \/ RestAdjustment

SpecAdjust == InitAdjust /\ [][NextAdjust]_vars

\* the lookups are out of reach
Down == call.args.fail # {}
Returned(op) == call.op = op

\* ------------------------------------------------------------ the defense rating
\* the games of a player in the game log, and how many of them are newer
\* than game i
GamesOf(player_id) == {i \in 1..Len(statsTbl) : statsTbl[i].player_id = player_id}
NewerThan(player_id, i) ==
    Cardinality({j \in GamesOf(player_id) : statsTbl[j].date > statsTbl[i].date})

\* the sum of a function over a finite set
RECURSIVE SumOver(_, _)
SumOver(f, S) ==
    IF S = {} THEN 0
    ELSE LET x == CHOOSE y \in S : TRUE IN f[x] + SumOver(f, S \ {x})

\* the games on record against the opponent, and those of them that qualify:
\* the stat has a value above zero
Against(opponent_team) == {i \in 1..Len(statsTbl) : statsTbl[i].opponent = opponent_team}

Allowed(i, prop_type) ==
    IF prop_type \in {"points", "rebounds", "assists"} THEN statsTbl[i].vals[prop_type] ELSE None

Qualifying(opponent_team, prop_type) ==
    {i \in Against(opponent_team) :
        Allowed(i, prop_type) # None /\ Val(Allowed(i, prop_type)) > 0}

\* the league-average constants of the stats this specification asks for
LeagueConstant == [points |-> Rat(12, 1), threes |-> Rat(9, 5)]

\* the average allowed over the qualifying games, over the league average,
\* clamped to [0.85, 1.15]
ClampedAllowance(opponent_team, prop_type) ==
    LET Q == Qualifying(opponent_team, prop_type)
        avg == Rat(SumOver([i \in Q |-> Val(Allowed(i, prop_type))], Q), Cardinality(Q))
        rating == RDiv(avg, LeagueConstant[prop_type])
    IN  IF RLt(rating, Rat(85, 100)) THEN Rat(85, 100)
        ELSE IF RLt(Rat(115, 100), rating) THEN Rat(115, 100)
        ELSE rating

Between(lo, x, hi) == RLe(lo, x) /\ RLe(x, hi)

\* C14: whatever the game log, the injury table and the arguments, and
\* whether or not the lookups can be made, the Opponent Defense Rating lies
\* in [0.85, 1.15] and the Injury Adjustment multiplier in [0.0, 1.0].
C14_MultiplierBounds ==
    /\ Returned("calculate_opponent_defense_rating") =>
           /\ ~call.out.raised
           /\ Between(Rat(85, 100), call.out.value, Rat(115, 100))
    /\ Returned("get_injury_status") =>
           /\ ~call.out.raised
           /\ Between(RZero, call.out.value.impact_multiplier, ROne)

\* a rating held at 1.15: the opponent allows more than 1.15 times the
\* league average over its qualifying games
C14_Witness ==
    /\ Returned("calculate_opponent_defense_rating") /\ ~Down
    /\ call.out.value = Rat(115, 100)
    /\ LET Q == Qualifying(call.args.opponent_team, call.args.prop_type)
       IN  SumOver([i \in Q |-> Val(Allowed(i, call.args.prop_type))], Q)
               > 14 * Cardinality(Q)

\* ------------------------------------------------------------ the neutral multiplier
\* the samples of the calculators, read off the tables
VersusGames(player_id, opponent_team) ==
    {i \in GamesOf(player_id) : statsTbl[i].opponent = opponent_team}
VenueGames(player_id, home) == {i \in GamesOf(player_id) : statsTbl[i].home = home}
ActiveInjuries(player_id) ==
    {i \in 1..Len(injTbl) : injTbl[i].player_id = player_id /\ injTbl[i].status = "active"}
PriorGames(player_id, date) == {i \in GamesOf(player_id) : statsTbl[i].date < date}

\* C15: each of the five adjustment calculators returns exactly 1.0 when
\* its sample is empty or out of reach, or the opponent is unknown: the
\* defense rating with no game against the opponent, the matchup adjustment
\* with no game of the player or none against the opponent, the home/away
\* adjustment with no home game or no away game, the injury adjustment with
\* no active injury record, the rest adjustment with no earlier game.
C15_NeutralWithoutSample ==
    /\ (/\ Returned("calculate_opponent_defense_rating")
        /\ (Down \/ Against(call.args.opponent_team) = {}))
           => call.out = Ok(ROne)
    /\ (/\ Returned("calculate_opponent_adjustment")
        /\ \/ Down
           \/ GamesOf(call.args.player_id) = {}
           \/ VersusGames(call.args.player_id, call.args.opponent_team) = {})
           => call.out = Ok(ROne)
    /\ (/\ Returned("calculate_home_away_adjustment")
        /\ \/ Down
           \/ VenueGames(call.args.player_id, TRUE) = {}
           \/ VenueGames(call.args.player_id, FALSE) = {})
           => call.out = Ok(ROne)
    /\ (/\ Returned("get_injury_status")
        /\ (Down \/ ActiveInjuries(call.args.player_id) = {}))
           => /\ ~call.out.raised
              /\ call.out.value.impact_multiplier = ROne
    /\ (/\ Returned("calculate_rest_adjustment")
        /\ (Down \/ PriorGames(call.args.player_id, TargetDate) = {}))
           => /\ ~call.out.raised
              /\ call.out.value.rest_adjustment = ROne

\* the rest adjustment of a player whose only games on record are on the
\* day of the target game or later, and who would be adjusted with one game
\* more on record
C15_Witness ==
    /\ Returned("calculate_rest_adjustment") /\ ~Down
    /\ GamesOf(call.args.player_id) # {}
    /\ PriorGames(call.args.player_id, TargetDate) = {}
    /\ call.out.value.rest_adjustment = ROne
    /\ calculate_rest_adjustment(
           get_player_rest_days(Db, {}, call.args.player_id, TargetDate + 2).value) # ROne

\* ------------------------------------------------------------ the injury adjustment
\* the player's most recent active injury record
LatestInjury(player_id) ==
    injTbl[CHOOSE i \in ActiveInjuries(player_id) :
               \A j \in ActiveInjuries(player_id) :
                   injTbl[j].reported_date <= injTbl[i].reported_date]

\* the severity defaults, under the spellings of the injury feed
SeverityDefault == [Out |-> 100, Doubtful |-> 50, Questionable |-> 25, Probable |-> 10]

\* 1 - impact / 100, clamped to [0, 1]
ImpactMultiplier(impact) ==
    IF impact >= 100 THEN RZero ELSE IF impact <= 0 THEN ROne ELSE Rat(100 - impact, 100)

\* C16: the Injury Adjustment is clamp(1 - impact/100, 0, 1), where impact
\* is the explicit impact percentage of the player's most recent active
\* injury record whenever the record carries one, whatever its value, and
\* the severity default (out=100, doubtful=50, questionable=25, probable=10)
\* only when the percentage is absent; with no active injury record the
\* multiplier is exactly 1.0 and the status is "healthy".
\* The code takes an explicit percentage of 0 for an absent one and applies
\* the severity default, and it reports a record without a severity as
\* healthy.
C16_ExplicitImpactFirst ==
    (Returned("get_injury_status") /\ ~Down) =>
        IF ActiveInjuries(call.args.player_id) = {}
        THEN /\ call.out.value.impact_multiplier = ROne
             /\ call.out.value.status = "healthy"
        ELSE LET injury == LatestInjury(call.args.player_id) IN
             /\ injury.impact_percentage # None =>
                    call.out.value.impact_multiplier
                        = ImpactMultiplier(Val(injury.impact_percentage))
             /\ (/\ injury.impact_percentage = None
                 /\ injury.severity # None
                 /\ Val(injury.severity) \in DOMAIN SeverityDefault) =>
                    call.out.value.impact_multiplier
                        = ImpactMultiplier(SeverityDefault[Val(injury.severity)])

\* ------------------------------------------------------------ specification of the projection
\* the quote table of this specification: two Bovada quotes of p1's points
\* in g1, the newer one stored first, and a quote of another book
ProjectOdds ==
    << [id |-> 1, created_at |-> Some(IsoFormat(2))]
           @@ Quote("p1", "g1", "points", Rat(45, 2), "Bovada"),
       [id |-> 2, created_at |-> Some(IsoFormat(1))]
           @@ Quote("p1", "g1", "points", Rat(47, 2), "Bovada"),
       [id |-> 3, created_at |-> Some(IsoFormat(3))]
           @@ Quote("p1", "g1", "points", Rat(51, 2), "DraftKings") >>

\* the game logs of this specification: road logs of every value pattern,
\* and mixed logs whose points column is constant
ProjectLogs ==
    {GameLog(n, vals, last, FALSE) :
         n \in 0..MaxGames, vals \in ValuePatterns, last \in LastDates}
    \cup {GameLog(n, vals, last, TRUE) :
              n \in 0..MaxGames, vals \in {"flat", "low", "zero"}, last \in LastDates}

\* the arguments: a book line handed in, looked up or not to be had, and
\* the store up, down, or down for one lookup
ProjectArgs ==
    [fail : {{}, {"bovada"}, {"recent15"}, Lookups}, player_id : {"p1", "p2"},
     prop_type : {"points"}, opponent_team : {"BOS", ""}, is_home : BOOLEAN,
     game_id : {"g1", ""}, bovada_line : {None, Some(Rat(49, 2))}]

InitProject ==
    /\ clock = 3
    /\ odds = ProjectOdds
    /\ \/ statsTbl \in ProjectLogs /\ injTbl = SeasonInjuries
       \/ statsTbl = SeasonStats /\ injTbl \in InjuryReports
    /\ projTbl = <<>>
    /\ feedTbl = <<>>
    /\ runs = [r \in RunIds |-> IdleRun]
    /\ lastWrite = EmptyDict
    /\ \E args \in ProjectArgs : call = [op |-> "args", args |-> args]

Project ==
    Returns("calculate_projection",
            calculate_projection(Db, call.args.fail, call.args.player_id, call.args.prop_type,
                                 call.args.opponent_team, call.args.is_home, call.args.game_id,
                                 call.args.bovada_line))

NextProject == Project

SpecProject == InitProject /\ [][NextProject]_vars

\* ------------------------------------------------------------ the baseline
\* the linearly weighted mean of a newest-first sequence of optional values,
\* for the recency weight p / q: position i (0-indexed) weighs
\* 1 + (N - i) * p / q, that is (q + (N - i) * p) / q
LinearMean(values, p, q) ==
    LET N == Len(values)
        has == {i \in 1..N : ~IsNone(values[i])}
        w == [i \in has |-> q + (N - (i - 1)) * p]
    IN  IF has = {} THEN None
        ELSE Some(Rat(SumOver([i \in has |-> Val(values[i]) * w[i]], has), SumOver(w, has)))

\* the values of a stat in the `games` most recent games of a player,
\* newest first
WindowValues(player_id, prop_type, games) ==
    LET in == {i \in GamesOf(player_id) : NewerThan(player_id, i) < games}
    IN  [k \in 1..Cardinality(in) |->
            get_prop_value_from_stat(
                statsTbl[CHOOSE i \in in : NewerThan(player_id, i) = k - 1], prop_type)]

\* the book line calculate_projection can have: the one handed in, else the
\* line of the newest Bovada quote of the prop, when the game is named and
\* the quotes can be read
BookLine ==
    LET quotes == {i \in 1..Len(odds) :
                      /\ odds[i].player_id = call.args.player_id
                      /\ odds[i].game_id = call.args.game_id
                      /\ odds[i].prop_type = call.args.prop_type
                      /\ odds[i].book = "Bovada"}
        newest == CHOOSE i \in quotes : \A j \in quotes :
                      ~StrGreater(Val(odds[j].created_at), Val(odds[i].created_at))
    IN  IF call.args.bovada_line # None THEN call.args.bovada_line
        ELSE IF call.args.game_id = "" \/ "bovada" \in call.args.fail \/ quotes = {} THEN None
        ELSE odds[newest].line

\* the player's average calculate_projection can have: recency weight 0.15
\* over the 15 most recent games, when the game log can be read
PlayerAverage ==
    IF "recent15" \in call.args.fail THEN None
    ELSE LinearMean(WindowValues(call.args.player_id, call.args.prop_type, 15), 3, 20)

\* C12: calculate_projection takes as baseline the sportsbook line whenever
\* one is handed in or found, otherwise the player's weighted average
\* (recency weight 0.15) over the 15 most recent games, and names the one it
\* took in the baseline source tag; with neither it returns the
\* null-projection result (no projected line, confidence 0, sample size 0)
\* and does not raise.
C12_BaselineSelection ==
    Returned("calculate_projection") =>
        /\ ~call.out.raised
        /\ LET p == call.out.value IN
           IF BookLine # None
           THEN /\ p.factors.baseline = Val(BookLine)
                /\ p.factors.baseline_source = "bovada"
                /\ p.baseline_source = Some("bovada")
                /\ p.projected_line # None
           ELSE IF PlayerAverage # None
           THEN /\ p.factors.baseline = Val(PlayerAverage)
                /\ p.factors.baseline_source = "player_avg"
                /\ p.baseline_source = Some("player_avg")
                /\ p.projected_line # None
           ELSE /\ p.projected_line = None
                /\ p.confidence = RZero
                /\ p.sample_size = 0

\* a projection on the average of a player with sixteen games of rising
\* values, the oldest of which is outside the window
C12_Witness ==
    /\ Returned("calculate_projection")
    /\ call.args.player_id = "p1"
    /\ Len(statsTbl) = 16
    /\ BookLine = None
    /\ call.out.value.baseline_source = Some("player_avg")
    /\ call.out.value.factors.baseline # Val(LinearMean(WindowValues("p1", "points", 16), 3, 20))
    /\ call.out.value.factors.baseline # Val(LinearMean(WindowValues("p1", "points", 15), 1, 10))

\* ------------------------------------------------------------ the rest adjustment
\* the calendar-day gap between the player's last game before the day and
\* the day; 2 when there is no such game
RestGap(player_id, date) ==
    LET prior == PriorGames(player_id, date)
        last == CHOOSE i \in prior : \A j \in prior : statsTbl[j].date <= statsTbl[i].date
    IN  IF prior = {} THEN 2 ELSE date - statsTbl[last].date

\* 0 -> 0.95, 1 -> 0.98, 2 -> 1.0, >= 3 -> 1.02
RestTable(days) ==
    CASE days = 0 -> Rat(95, 100)
      [] days = 1 -> Rat(98, 100)
      [] days = 2 -> ROne
      [] OTHER -> Rat(102, 100)

TenValues ==
    IF "recent15" \in call.args.fail THEN <<>>
    ELSE WindowValues(call.args.player_id, call.args.prop_type, 10)

\* the positions of a sequence that hold a value, the sum of the values,
\* and n^2 times their variance, n * sum(v^2) - sum(v)^2
HeldIn(w) == {i \in 1..Len(w) : w[i] # None}
SumIn(w) == SumOver([i \in HeldIn(w) |-> Val(w[i])], HeldIn(w))
SpreadIn(w) ==
    Cardinality(HeldIn(w)) * SumOver([i \in HeldIn(w) |-> Val(w[i]) * Val(w[i])], HeldIn(w))
    - SumIn(w) * SumIn(w)

ValuesHeld == HeldIn(TenValues)
ValuesSum == SumIn(TenValues)
ValuesSpread == SpreadIn(TenValues)

\* min(1.0, sample_size / 15)
SampleShare(sample_size) == IF sample_size >= 15 THEN ROne ELSE Rat(sample_size, 15)

\* c = c0 * max(0.5, 1.0 - 0.5 * (stddev / mean)), where stddev / mean is
\* sqrt(D) / S for the sum S and the spread D: at or above 1 the factor is
\* 1/2, below it the root is the rational 2 * S * (c0 - c) / c0
ExactlyScaled(c0, c, S, D) ==
    IF D >= S * S THEN c = RMul(c0, Rat(1, 2))
    ELSE \E r \in 0..S :
             /\ r * r = D
             /\ Rat(2 * S * (c[2] * c0[1] - c[1] * c0[2]), c[2] * c0[1]) = RInt(r)

\* c is within half a hundredth of the rational y
NearestHundredth(c, y) ==
    LET d == c[1] * y[2] - y[1] * c[2]
    IN  200 * (IF d < 0 THEN 0 - d ELSE d) <= c[2] * y[2]

\* c = k / 100 is within half a hundredth of
\* c0 * max(0.5, 1.0 - 0.5 * (stddev / mean)): for c0 = p / q the product is
\* at least t / 100 exactly when sqrt(D) <= 2 * S * (100 * p - t * q) / (100 * p)
RoundedScaled(c0, c, S, D) ==
    IF D >= S * S THEN NearestHundredth(c, RMul(c0, Rat(1, 2)))
    ELSE LET k == c[1] * (100 \div c[2])
             AtLeast(t2) == Rat(S * (200 * c0[1] - t2 * c0[2]), 100 * c0[1])
             Within(r) == /\ SqrtLe(D, r, AtLeast(2 * k - 1))
                          /\ SqrtGe(D, r, AtLeast(2 * k + 1))
         IN  Within(ISqrt(D))

\* C20 as stated: every projection's confidence lies in [0, 1] and equals
\* min(1.0, sample_size / 15), multiplied, whenever sample_size >= 5, by
\* max(0.5, 1.0 - 0.5 * (stddev / mean)) computed over the last 10 values
\* (taken where the mean is above zero).
C20_ConfidenceFormula ==
    Returned("calculate_projection") =>
        LET c == call.out.value.confidence
            n == call.out.value.sample_size
            Over(S, D) ==
                IF n >= 5 /\ S > 0 THEN ExactlyScaled(SampleShare(n), c, S, D)
                ELSE c = SampleShare(n)
            Of(w) == Over(SumIn(w), SpreadIn(w))
        IN  Between(RZero, c, ROne) /\ Of(TenValues)

\* C20 as amended: every projection's confidence lies in [0, 1] and equals,
\* rounded to two decimals, min(1.0, sample_size / 15), multiplied, whenever
\* sample_size >= 5 and at least 3 of the last 10 games carry a value and
\* the mean of these values is above zero, by
\* max(0.5, 1.0 - 0.5 * (stddev / mean)) computed over these values.
C20_RoundedConfidence ==
    Returned("calculate_projection") =>
        LET c == call.out.value.confidence
            n == call.out.value.sample_size
            Over(m, S, D) ==
                IF n >= 5 /\ m >= 3 /\ S > 0 THEN RoundedScaled(SampleShare(n), c, S, D)
                ELSE NearestHundredth(c, SampleShare(n))
            Of(w) == Over(Cardinality(HeldIn(w)), SumIn(w), SpreadIn(w))
        IN  Between(RZero, c, ROne) /\ 100 % c[2] = 0 /\ Of(TenValues)

\* a confidence scaled by a factor strictly between one half and one, and
\* rounded
C20_Witness ==
    /\ Returned("calculate_projection")
    /\ call.out.value.sample_size = 11
    /\ Cardinality(ValuesHeld) = 10
    /\ 0 < ValuesSpread /\ ValuesSpread < ValuesSum * ValuesSum
    /\ RLt(RMul(SampleShare(11), Rat(1, 2)), call.out.value.confidence)
    /\ RLt(call.out.value.confidence, Rat(72, 100))

\* ------------------------------------------------------------ specification of the weighted average
\* the longest sequence of this specification
MaxLen == 4

\* what a record may hold for the stat
StatValues == {None, Some(0), Some(1), Some(2), Some(3)}

\* the recency weights the code passes: the default and the projection's
RecencyWeights == {DefaultRecencyWeight, ProjectionRecencyWeight}

\* the game records of a sequence of values, newest first
RecordsOf(values) ==
    [i \in 1..Len(values) |-> StatRow("p1", MaxLen - i, "BOS", TRUE, values[i], None, None)]

Reorderings(n) == {f \in [1..n -> 1..n] : \A i, j \in 1..n : f[i] = f[j] => i = j}

\* a sequence of values, a reordering of it, and a recency weight
InitWavg ==
    /\ clock = 0
    /\ odds = <<>>
    /\ statsTbl = <<>>
    /\ injTbl = <<>>
    /\ projTbl = <<>>
    /\ feedTbl = <<>>
    /\ runs = [r \in RunIds |-> IdleRun]
    /\ lastWrite = EmptyDict
    /\ \E n \in 0..MaxLen :
           \E values \in [1..n -> StatValues], f \in Reorderings(n), w \in RecencyWeights :
               call = [op |-> "args",
                       args |-> [values |-> values,
                                 reordered |-> [i \in 1..n |-> values[f[i]]],
                                 recency_weight |-> w]]

\* calculate_weighted_average of the sequence and of its reordering
WeightedAverage ==
    Returns("calculate_weighted_average",
            [average |-> calculate_weighted_average(RecordsOf(call.args.values), "points",
                                                    call.args.recency_weight),
             reordered |-> calculate_weighted_average(RecordsOf(call.args.reordered), "points",
                                                      call.args.recency_weight)])

NextWavg == WeightedAverage

SpecWavg == InitWavg /\ [][NextWavg]_vars

\* every record of both sequences carries a value
AllValued == \A i \in 1..Len(call.args.values) : call.args.values[i] # None

\* the sum of position times value over a sequence of values
PositionSum(values) ==
    SumOver([i \in 1..Len(values) |-> i * Val(values[i])], 1..Len(values))

\* C18 as stated: for two value sequences that are permutations of each
\* other, weighted_average with a recency weight above zero gives different
\* results if and only if the reordering changes which values occupy the
\* positions.
\* The weights are linear in the position, so a reordering that keeps the
\* position-weighted sum, as (1, 3, 2) to (2, 1, 3), keeps the average.
C18_DiffersIffReordered ==
    (Returned("calculate_weighted_average") /\ AllValued) =>
        (call.out.average # call.out.reordered <=> call.args.values # call.args.reordered)

\* C18 as amended: for two value sequences that are permutations of each
\* other, weighted_average with a recency weight above zero gives different
\* results if and only if the reordering changes the position-weighted sum
\* of the values, the sum of i * value_i over the positions i.
C18_DiffersIffPositionSumChanges ==
    (Returned("calculate_weighted_average") /\ AllValued) =>
        (call.out.average # call.out.reordered
             <=> PositionSum(call.args.values) # PositionSum(call.args.reordered))

\* a reordering that moves every value and keeps the average
C18_Witness ==
    /\ Returned("calculate_weighted_average") /\ AllValued
    /\ Len(call.args.values) = 3
    /\ \A i \in 1..3 : call.args.values[i] # call.args.reordered[i]
    /\ call.out.average # None
    /\ call.out.average = call.out.reordered

\* C19: calculate_weighted_average over a newest-first sequence of N records
\* returns the sum of value_i * w_i over the sum of w_i, taken over the
\* records that carry a value, with w_i = 1 + (N - i) * recency_weight for
\* the 0-indexed position i, so that the weights strictly decrease from the
\* most recent record to the oldest; it returns null when the sequence is
\* empty or no record carries a value
C19_LinearRecencyWeights ==
    Returned("calculate_weighted_average") =>
        LET values == call.args.values
            p == call.args.recency_weight[1]
            q == call.args.recency_weight[2]
            N == Len(values)
        IN  /\ call.out.average = LinearMean(values, p, q)
            /\ \A i, j \in 0..(N - 1) : i < j => q + (N - i) * p > q + (N - j) * p
            /\ (N = 0 \/ \A i \in 1..N : values[i] = None) <=> call.out.average = None

\* a full sequence with a hole, values that differ, and an average pulled
\* toward the front value
C19_Witness ==
    /\ Returned("calculate_weighted_average")
    /\ call.args.values = <<Some(3), None, Some(0), Some(1)>>
    /\ call.args.recency_weight = ProjectionRecencyWeight
    /\ call.out.average = Some(Rat(119, 81))

\* ------------------------------------------------------------ the back-to-back game
\* C30: for a back-to-back game, that is when the player's immediately
\* preceding recorded game was played on the calendar day before the target
\* game, get_player_rest_days returns 0 and calculate_projection applies the
\* back-to-back rest multiplier 0.95.
\* The code returns the difference of the two dates, which is 1 on
\* consecutive days, and applies 0.98.
C30_BackToBackIsZeroRest ==
    (/\ Returned("calculate_projection")
     /\ call.args.game_id = "g1"
     /\ call.args.fail \cap {"game", "rest"} = {}
     /\ call.out.value.projected_line # None
     /\ \E i \in PriorGames(call.args.player_id, TargetDate) :
            statsTbl[i].date = TargetDate - 1) =>
        /\ call.out.value.factors.rest_days = Some(0)
        /\ call.out.value.factors.rest_adjustment = Rat(95, 100)

\* ------------------------------------------------------------ specification of the edge and the hit rate
\* the longest game log of this specification, the example of the
\* specification's section 8 aside
MaxSample == 4

\* what a game record may hold for the stat
SampleValues == {None, Some(25), Some(28), Some(31)}

ExampleValues == <<Some(30), Some(25), Some(28), Some(22), Some(31)>>

Samples == UNION {[1..n -> SampleValues] : n \in 0..MaxSample} \cup {ExampleValues}

\* no line, a line between the values, a line on a value
EdgeLines == {None, Some(Rat(55, 2)), Some(Rat(28, 1))}

\* no price, the falsy price 0, and American prices of both signs
EdgePrices == {None, Some(0), Some(-110), Some(120), Some(-250)}

InitEdge ==
    /\ clock = 0
    /\ odds = <<>>
    /\ statsTbl = <<>>
    /\ injTbl = <<>>
    /\ projTbl = <<>>
    /\ feedTbl = <<>>
    /\ runs = [r \in RunIds |-> IdleRun]
    /\ lastWrite = EmptyDict
    /\ \E values \in Samples, line \in EdgeLines, over_price, under_price \in EdgePrices :
           call = [op |-> "args",
                   args |-> [values |-> values, line |-> line,
                             over_price |-> over_price, under_price |-> under_price]]

\* _calculate_edge_and_hitrate of the quote and the log, with the two
\* probabilities it held when it built its results
EdgeAndHitRate ==
    LET prop == [prop_type |-> "points", line |-> call.args.line,
                 over_price |-> call.args.over_price, under_price |-> call.args.under_price]
        With(res) ==
            [edge |-> res.edge, hit_rate |-> res.hit_rate,
             probs |-> IF res.hit_rate = None THEN None
                       ELSE Some(SmoothedProbabilities(Val(res.hit_rate).total_games,
                                                       Val(res.hit_rate).over_count,
                                                       Val(res.hit_rate).under_count))]
    IN  Returns("_calculate_edge_and_hitrate",
                With(_calculate_edge_and_hitrate(prop, RecordsOf(call.args.values))))

NextEdge == EdgeAndHitRate

SpecEdge == InitEdge /\ [][NextEdge]_vars

\* the historical values of the call, and how many lie above, below and on
\* the line
Historical == {i \in 1..Len(call.args.values) : call.args.values[i] # None}
Above == {i \in Historical : RLt(Val(call.args.line), RInt(Val(call.args.values[i])))}
Below == {i \in Historical : RLt(RInt(Val(call.args.values[i])), Val(call.args.line))}
OnLine == {i \in Historical : RInt(Val(call.args.values[i])) = Val(call.args.line)}

\* C21: for any line and any non-empty sequence of historical values the
\* smoothed and re-normalized probabilities satisfy p_over + p_under = 1 with
\* both strictly between 0 and 1, whatever the number of pushes, while the
\* raw over, under and push counts sum to N; the probability reported with
\* the edge is the one of its side
C21_ProbabilitiesSumToOne ==
    (Returned("_calculate_edge_and_hitrate") /\ Historical # {} /\ call.args.line # None) =>
        /\ call.out.probs # None
        /\ LET p_over == Val(call.out.probs)[1]
               p_under == Val(call.out.probs)[2]
               hit_rate == Val(call.out.hit_rate)
           IN  /\ RAdd(p_over, p_under) = ROne
               /\ RLt(RZero, p_over) /\ RLt(p_over, ROne)
               /\ RLt(RZero, p_under) /\ RLt(p_under, ROne)
               /\ hit_rate.over_count + hit_rate.under_count + hit_rate.pushes
                      = Cardinality(Historical)
               /\ hit_rate.total_games = Cardinality(Historical)
               /\ call.out.edge # None =>
                      Val(call.out.edge).prob
                          = IF Val(call.out.edge).side = "over" THEN p_over ELSE p_under

\* a log with pushes, one game over the line and none under it
C21_Witness ==
    /\ Returned("_calculate_edge_and_hitrate")
    /\ call.out.probs = Some(<<Rat(11, 12), Rat(1, 12)>>)
    /\ Val(call.out.hit_rate).pushes = 2
    /\ Val(call.out.hit_rate).total_games = 3

\* ------------------------------------------------------------ the reported edge
\* a price the calculator can use: one that is there and is not 0
Available(price) == price # None /\ Val(price) # 0

\* EV = p * payout - (1 - p), payout odds / 100 for positive and
\* 100 / |odds| for negative American odds
ExpectedValue(p, american) ==
    LET payout == IF american > 0 THEN Rat(american, 100) ELSE Rat(100, 0 - american)
    IN  RSub(RMul(p, payout), RSub(ROne, p))

\* (hits + 0.1) / (N + 0.2), re-normalized over the two sides
SideProbability(hits, others) == Rat(10 * hits + 1, 10 * (hits + others) + 2)

OverValue ==
    ExpectedValue(SideProbability(Cardinality(Above), Cardinality(Below)),
                  Val(call.args.over_price))
UnderValue ==
    ExpectedValue(SideProbability(Cardinality(Below), Cardinality(Above)),
                  Val(call.args.under_price))

\* C22: the reported edge is the side (over or under) with the higher
\* expected value, EV = p * payout - (1 - p), whenever both prices are
\* available; when only one side has a price that side is reported; for
\* the values [30, 25, 28, 22, 31], line 27.5 and prices -110 / -110 the
\* reported edge is the over side with EV about +0.138
C22_ReportsHigherValueSide ==
    (Returned("_calculate_edge_and_hitrate") /\ Historical # {} /\ call.args.line # None) =>
        LET edge == Val(call.out.edge)
            over == Available(call.args.over_price)
            under == Available(call.args.under_price)
        IN  /\ (over \/ under) => call.out.edge # None
            /\ (over /\ under) =>
                   \/ edge.side = "over" /\ edge.edge = OverValue /\ RLe(UnderValue, OverValue)
                   \/ edge.side = "under" /\ edge.edge = UnderValue /\ RLe(OverValue, UnderValue)
            /\ (over /\ ~under) => edge.side = "over" /\ edge.edge = OverValue
            /\ (under /\ ~over) => edge.side = "under" /\ edge.edge = UnderValue
            /\ (over \/ under) =>
                   edge.odds = IF edge.side = "over" THEN call.args.over_price
                               ELSE call.args.under_price
            /\ (/\ call.args.values = ExampleValues
                /\ call.args.line = Some(Rat(55, 2))
                /\ call.args.over_price = Some(-110)
                /\ call.args.under_price = Some(-110)) =>
                   /\ edge.side = "over"
                   /\ RLt(Rat(1375, 10000), edge.edge) /\ RLt(edge.edge, Rat(1385, 10000))

\* the example: three games of five over 27.5 at -110 on both sides
C22_Witness ==
    /\ Returned("_calculate_edge_and_hitrate")
    /\ call.args.values = ExampleValues
    /\ call.args.line = Some(Rat(55, 2))
    /\ call.args.over_price = Some(-110)
    /\ call.args.under_price = Some(-110)
    /\ Val(call.out.edge).side = "over"
    /\ Val(call.out.edge).edge = Rat(79, 572)

\* ------------------------------------------------------------ the hit rate
\* x is within half a tenth of the rational y, and has one decimal
NearestTenth(x, y) ==
    LET d == x[1] * y[2] - y[1] * x[2]
    IN  10 % x[2] = 0 /\ 20 * (IF d < 0 THEN 0 - d ELSE d) <= x[2] * y[2]

\* C23: the hit-rate result counts as over exactly the games whose value is
\* strictly greater than the line, as under exactly those strictly less, and
\* as pushes the remainder (the values equal to the line), and reports the
\* raw percentages hits / N * 100 rounded to 1 decimal; the edge and the
\* hit-rate result are both null exactly when there are zero historical
\* values or the line is undefined
C23_StrictCountsAndNulls ==
    Returned("_calculate_edge_and_hitrate") =>
        /\ (call.out.edge = None /\ call.out.hit_rate = None)
               <=> (Historical = {} \/ call.args.line = None)
        /\ call.out.hit_rate = None <=> (Historical = {} \/ call.args.line = None)
        /\ call.out.hit_rate # None =>
               LET hit_rate == Val(call.out.hit_rate)
                   N == Cardinality(Historical)
               IN  /\ hit_rate.total_games = N
                   /\ hit_rate.over_count = Cardinality(Above)
                   /\ hit_rate.under_count = Cardinality(Below)
                   /\ hit_rate.pushes = Cardinality(OnLine)
                   /\ NearestTenth(hit_rate.over_pct, Rat(100 * Cardinality(Above), N))
                   /\ NearestTenth(hit_rate.under_pct, Rat(100 * Cardinality(Below), N))

\* three games with a value, one over, one under and one on the line 28,
\* and a record without the stat
C23_Witness ==
    /\ Returned("_calculate_edge_and_hitrate")
    /\ call.args.line = Some(Rat(28, 1))
    /\ Len(call.args.values) = 4 /\ Cardinality(Historical) = 3
    /\ Val(call.out.hit_rate).over_count = 1
    /\ Val(call.out.hit_rate).under_count = 1
    /\ Val(call.out.hit_rate).pushes = 1
    /\ Val(call.out.hit_rate).over_pct = Rat(333, 10)

\* ------------------------------------------------------------ specification of the stat extractor
\* the columns a game record may carry, and what a column may hold: null,
\* zero or a count
RecordFields == {"points", "rebounds", "assists", "three_pointers_made"}
FieldValues == {None, Some(0), Some(7)}

\* the game records: any columns present, any of them null
GameRecords == UNION {[F -> FieldValues] : F \in SUBSET RecordFields}

\* the categories asked for: simple ones, the esports aliases, the
\* composite, and one the extractor does not know
Categories == {"points", "rebounds", "assists", "threes", "kills", "deaths", "pra", "fantasy"}

InitExtract ==
    /\ clock = 0
    /\ odds = <<>>
    /\ statsTbl = <<>>
    /\ injTbl = <<>>
    /\ projTbl = <<>>
    /\ feedTbl = <<>>
    /\ runs = [r \in RunIds |-> IdleRun]
    /\ lastWrite = EmptyDict
    /\ \E vals \in GameRecords, prop_type \in Categories :
           call = [op |-> "args", args |-> [stat |-> [vals |-> vals], prop_type |-> prop_type]]

Extract ==
    Returns("get_prop_value_from_stat",
            get_prop_value_from_stat(call.args.stat, call.args.prop_type))

NextExtract == Extract

SpecExtract == InitExtract /\ [][NextExtract]_vars

\* the column of the record, null when the record lacks it
Column(name) ==
    IF name \in DOMAIN call.args.stat.vals THEN call.args.stat.vals[name] ELSE None

\* the column counted as zero when it is missing or null
ColumnOrZero(name) == IF Column(name) = None THEN 0 ELSE Val(Column(name))

\* the column each simple category names
NamedColumn ==
    [points |-> "points", rebounds |-> "rebounds", assists |-> "assists",
     threes |-> "three_pointers_made", kills |-> "points", deaths |-> "rebounds"]

\* C25: get_prop_value_from_stat does not raise on any record: for the
\* composite category it returns the sum of the points, rebounds and assists
\* fields with missing sub-fields counted as zero, for a simple category
\* (the esports aliases kills -> points field and deaths -> rebounds field
\* included) it returns the named field or null when absent, and absence of
\* data is reported as null
C25_ExtractsFieldOrNull ==
    Returned("get_prop_value_from_stat") =>
        IF call.args.prop_type = "pra"
        THEN call.out = Some(ColumnOrZero("points") + ColumnOrZero("rebounds")
                             + ColumnOrZero("assists"))
        ELSE IF call.args.prop_type \in DOMAIN NamedColumn
        THEN call.out = Column(NamedColumn[call.args.prop_type])
        ELSE call.out = None

\* the composite of a record with points, without the rebounds column and
\* with null assists
C25_Witness ==
    /\ Returned("get_prop_value_from_stat")
    /\ call.args.prop_type = "pra"
    /\ Column("points") = Some(7)
    /\ "rebounds" \notin DOMAIN call.args.stat.vals
    /\ "assists" \in DOMAIN call.args.stat.vals /\ Column("assists") = None
    /\ call.out = Some(7)

\* ------------------------------------------------------------ specification of the recent-stats map
\* the most records a player has in this specification
MaxRecords == 3

\* the chunk of ids of one query of get_recent_stats_map
StatsQueryChunk == 25

RequestedIds == {<<"p1">>, <<"p1", "p2">>, <<"p1", "p2", "p3">>}
PerPlayerLimits == {1, 2}

\* the days of a player's newest game
NewestDays == {4, 8}

\* n games of a player on consecutive days up to `newest`, oldest first; the
\* dates of two players never coincide (slot tells them apart), so that the
\* store's ORDER BY date DESC is one order
PlayerLog(player_id, slot, n, newest) ==
    [i \in 1..n |-> StatRow(player_id, 3 * (newest - n + i) + slot, "BOS", TRUE,
                            Some(10 + i), None, None)]

StatTables ==
    {PlayerLog("p1", 0, n1, d1) \o PlayerLog("p2", 1, n2, d2) \o PlayerLog("p3", 2, n3, d3) :
         n1 \in 0..MaxRecords, n2 \in 0..MaxRecords, n3 \in 0..MaxRecords,
         d1 \in NewestDays, d2 \in NewestDays, d3 \in NewestDays}

InitStats ==
    /\ clock = 0
    /\ odds = <<>>
    /\ statsTbl \in StatTables
    /\ injTbl = <<>>
    /\ projTbl = <<>>
    /\ feedTbl = <<>>
    /\ runs = [r \in RunIds |-> IdleRun]
    /\ lastWrite = EmptyDict
    /\ \E ids \in RequestedIds, limit_per_player \in PerPlayerLimits :
           call = [op |-> "args", args |-> [ids |-> ids, limit_per_player |-> limit_per_player]]

RecentStats ==
    Returns("get_recent_stats_map",
            RecentStatsIn(statsTbl, call.args.ids, call.args.limit_per_player, StatsQueryChunk))

NextStats == RecentStats

SpecStats == InitStats /\ [][NextStats]_vars

\* the records of a player, and the k-th newest of them
RecordsOfPlayer(player_id) == {i \in 1..Len(statsTbl) : statsTbl[i].player_id = player_id}
KthNewest(player_id, k) ==
    statsTbl[CHOOSE i \in RecordsOfPlayer(player_id) :
                 Cardinality({j \in RecordsOfPlayer(player_id) :
                                  statsTbl[j].date > statsTbl[i].date}) = k - 1]

\* C28: get_recent_stats_map returns, for every requested player who has
\* stat records, that player's limit_per_player most recent records (all of
\* them when the player has fewer), newest first, regardless of how many and
\* how recent the records of the other players in the same chunk of ids are.
\* One query reads the limit_per_player * len(chunk) newest rows of the
\* whole chunk, so a player whose games are older than those of the others
\* gets fewer records, or none.
C28_RecentStatsPerPlayer ==
    Returned("get_recent_stats_map") =>
        \A pid \in SeqToSet(call.args.ids) :
            RecordsOfPlayer(pid) # {} =>
                /\ pid \in DOMAIN call.out
                /\ LET n == Cardinality(RecordsOfPlayer(pid))
                       m == IF n < call.args.limit_per_player THEN n
                            ELSE call.args.limit_per_player
                   IN  call.out[pid] = [k \in 1..m |-> KthNewest(pid, k)]

\* ------------------------------------------------------------ Keyed TTL Cache
\* data_cache.py, lines 14-16: the times to live, in seconds
SHORT_TTL == 30
MEDIUM_TTL == 120
LONG_TTL == 300

\* the default limit_per_player of get_recent_stats_map
DefaultStatsLimit == 15

\* the data classes, by the prefix of their cache keys, and the ttl default
\* of the getter of each
CacheTtl ==
    [players |-> LONG_TTL, games |-> MEDIUM_TTL, player_stats |-> SHORT_TTL,
     projection_snapshots |-> SHORT_TTL]

\* _make_cache_key: the prefix and the sorted ids
_make_cache_key(prefix, ids) == <<prefix, ids>>

\* _get_cached that still serves an entry at its expiry (for comparison)
GetCachedThroughExpiry(cache, key, now) ==
    IF key \in DOMAIN cache /\ cache[key].expires_at >= now THEN Some(cache[key]) ELSE None

\* _get_cached, lines 27-29: the entry when it has not expired
_get_cached(cache, key, now) ==
    IF key \in DOMAIN cache /\ cache[key].expires_at > now THEN Some(cache[key]) ELSE None

\* _get_cached, lines 30-31: an entry that was not served is removed
PopExpired(cache, key, now) ==
    IF key \in DOMAIN cache /\ _get_cached(cache, key, now) = None
    THEN [k \in DOMAIN cache \ {key} |-> cache[k]]
    ELSE cache

\* _set_cached; read_at, the time the value was read from the store, is
\* kept with the entry for the properties only
_set_cached(cache, key, value, ttl, now, read_at) ==
    [k \in DOMAIN cache \cup {key} |->
        IF k = key THEN [value |-> value, expires_at |-> now + ttl, read_at |-> read_at]
        ELSE cache[k]]

\* the queries of a getter between its _get_cached and its _set_cached
ReadStore(prefix, ids) ==
    CASE prefix = "players" -> get_players_map(ids)
      [] prefix = "games" -> get_games_map(ids)
      [] prefix = "player_stats" ->
             RecentStatsIn(statsTbl, ids, DefaultStatsLimit, StatsQueryChunk)
      [] OTHER -> get_projection_snapshots_map(projTbl, ids, {}, {})

\* ------------------------------------------------------------ specification of the cache
\* one step of the wall clock, the time the specification runs to, the
\* longest a read of the store takes, and the games the store takes in
TickSeconds == 30
MaxClock == 330
MaxReadSeconds == 60
MaxRecorded == 1

Request(prefix, ids) == [prefix |-> prefix, ids |-> ids]

\* the getters a process calls, each with one id set
RequestSets ==
    {{Request("players", <<"p1">>)},
     {Request("games", <<"g1">>)},
     {Request("player_stats", <<"p1">>), Request("projection_snapshots", <<"p1">>)},
     {Request("games", <<"g1">>), Request("player_stats", <<"p1">>)}}

\* a process with an empty cache that has made no call
InitCache ==
    /\ clock = 0
    /\ odds = <<>>
    /\ statsTbl = <<>>
    /\ injTbl = <<>>
    /\ projTbl = <<>>
    /\ feedTbl = <<>>
    /\ runs = [r \in RunIds |-> IdleRun]
    /\ lastWrite = EmptyDict
    /\ \E requests \in RequestSets :
           call = [op |-> "idle", requests |-> requests, args |-> None, out |-> None,
                   cache |-> EmptyDict, pending |-> None]

\* time passes; a read of the store in progress takes MaxReadSeconds at most
Tick ==
    /\ clock < MaxClock
    /\ call.op = "reading" => clock - Val(call.pending).read_at < MaxReadSeconds
    /\ clock' = clock + TickSeconds
    /\ UNCHANGED <<odds, statsTbl, injTbl, projTbl, feedTbl, runs, lastWrite, call>>

\* the store takes the record of a game
RecordGame ==
    /\ Len(statsTbl) < MaxRecorded
    /\ statsTbl' = Append(statsTbl, StatRow("p1", clock, "BOS", TRUE, Some(20), None, None))
    /\ UNCHANGED <<clock, odds, injTbl, projTbl, feedTbl, runs, lastWrite, call>>

\* a getter finds its key in the cache and returns the cached map
CacheHit ==
    /\ call.op # "reading"
    /\ \E req \in call.requests :
           LET cached == _get_cached(call.cache, _make_cache_key(req.prefix, req.ids), clock)
           IN  /\ cached # None
               /\ call' = [call EXCEPT !.op = "returned", !.args = Some(req),
                                       !.out = Some([value |-> Val(cached).value,
                                                     hit |-> TRUE])]
    /\ UNCHANGED <<clock, odds, statsTbl, injTbl, projTbl, feedTbl, runs, lastWrite>>

\* a getter finds no live entry: an expired one is removed, and the store
\* is read
CacheMiss ==
    /\ call.op # "reading"
    /\ \E req \in call.requests :
           LET key == _make_cache_key(req.prefix, req.ids)
           IN  /\ _get_cached(call.cache, key, clock) = None
               /\ call' = [call EXCEPT !.op = "reading", !.args = Some(req), !.out = None,
                                       !.cache = PopExpired(call.cache, key, clock),
                                       !.pending = Some([value |-> ReadStore(req.prefix, req.ids),
                                                         read_at |-> clock])]
    /\ UNCHANGED <<clock, odds, statsTbl, injTbl, projTbl, feedTbl, runs, lastWrite>>

\* the getter caches what it read, at the time the read has taken, and
\* returns it
SetCached ==
    /\ call.op = "reading"
    /\ LET req == Val(call.args)
           read == Val(call.pending)
       IN  call' = [call EXCEPT !.op = "returned", !.pending = None,
                                !.cache = _set_cached(call.cache,
                                                      _make_cache_key(req.prefix, req.ids),
                                                      read.value, CacheTtl[req.prefix], clock,
                                                      read.read_at),
                                !.out = Some([value |-> read.value, hit |-> FALSE])]
    /\ UNCHANGED <<clock, odds, statsTbl, injTbl, projTbl, feedTbl, runs, lastWrite>>

NextCache == Tick \/ RecordGame \/ CacheHit \/ CacheMiss \/ SetCached

SpecCache == InitCache /\ [][NextCache]_vars

\* ------------------------------------------------------------ the time to live
\* the time to live of each data class, in seconds
ClassTtl == [player_stats |-> 30, projection_snapshots |-> 30, games |-> 120, players |-> 300]

KeyOfRequest(req) == <<req.prefix, req.ids>>

\* the cache holds an entry for the request whose time to live has not
\* elapsed
Live(req) ==
    /\ KeyOfRequest(req) \in DOMAIN call.cache
    /\ clock < call.cache[KeyOfRequest(req)].expires_at

\* the entries of the other keys stay as they are
OthersKept(req) ==
    /\ DOMAIN call'.cache \ {KeyOfRequest(req)} = DOMAIN call.cache \ {KeyOfRequest(req)}
    /\ \A k \in DOMAIN call.cache \ {KeyOfRequest(req)} : call'.cache[k] = call.cache[k]

\* a getter is called: it returns the cached map while the entry is live,
\* and otherwise removes the entry and reads the store
LooksUp(req) ==
    IF Live(req)
    THEN /\ call'.op = "returned"
         /\ Val(call'.out).hit
         /\ Val(call'.out).value = call.cache[KeyOfRequest(req)].value
         /\ call'.cache = call.cache
    ELSE /\ call'.op = "reading"
         /\ KeyOfRequest(req) \notin DOMAIN call'.cache
         /\ OthersKept(req)
         /\ Val(call'.pending).value = ReadStore(req.prefix, req.ids)

\* the getter returns what it read and caches it for the time to live of
\* its class
Refreshes(req) ==
    /\ call'.op = "returned"
    /\ ~Val(call'.out).hit
    /\ Val(call'.out).value = Val(call.pending).value
    /\ KeyOfRequest(req) \in DOMAIN call'.cache
    /\ call'.cache[KeyOfRequest(req)].value = Val(call.pending).value
    /\ call'.cache[KeyOfRequest(req)].expires_at = clock + ClassTtl[req.prefix]
    /\ OthersKept(req)

\* every step of a getter
GetterStep ==
    call' # call =>
        IF call.op = "reading" THEN Refreshes(Val(call.args)) ELSE LooksUp(Val(call'.args))

\* a map returned from the cache was read from the store no longer ago than
\* the time to live
ServedDataWithinTtl ==
    (call' # call /\ call.op # "reading" /\ Live(Val(call'.args))) =>
        clock - call.cache[KeyOfRequest(Val(call'.args))].read_at
            <= ClassTtl[Val(call'.args).prefix]

\* a map returned from the cache was cached less than the time to live ago
ServedEntryWithinTtl ==
    (call' # call /\ call.op # "reading" /\ Live(Val(call'.args))) =>
        LET entry == call.cache[KeyOfRequest(Val(call'.args))]
            ttl == ClassTtl[Val(call'.args).prefix]
        IN  /\ entry.read_at <= entry.expires_at - ttl
            /\ clock - (entry.expires_at - ttl) < ttl

\* C26 as stated: a reference-data map stored in the keyed TTL cache is
\* returned to later calls for the same ID set only while its fixed time to
\* live has not elapsed (30 s for recent stats and projection snapshots,
\* 120 s for games, 300 s for players); the first call at or after expiry
\* removes the entry, re-reads the store and caches the fresh result, so no
\* call ever returns data older than the time to live.
\* The time to live runs from the moment the map is cached, which is after
\* the read of the store, so the data returned can be older by the time the
\* read took.
C26_NoDataOlderThanTtl == [][GetterStep /\ ServedDataWithinTtl]_vars

\* C26 as amended: ... the first call at or after expiry removes the entry,
\* re-reads the store and caches the fresh result, so no call ever returns
\* a map that was cached longer ago than the time to live.
C26_NoEntryOlderThanTtl == [][GetterStep /\ ServedEntryWithinTtl]_vars

\* the recent stats returned from the cache, read from the store longer ago
\* than the time to live, after which the store has taken a game
C26_Witness ==
    /\ call.op = "returned"
    /\ Val(call.out).hit
    /\ Val(call.args).prefix = "player_stats"
    /\ Live(Val(call.args))
    /\ clock - call.cache[KeyOfRequest(Val(call.args))].read_at > ClassTtl.player_stats
    /\ Val(call.out).value # ReadStore("player_stats", Val(call.args).ids)

\* ------------------------------------------------------------ Scheduler
\* refresh_all_data, lines 58-62 and 69-74: the scripts in the order they
\* are run, the snapshot builders with their sport
Worker(script, sport) == [script |-> script, sport |-> sport]

workers ==
    << Worker("fetch_odds", ""), Worker("fetch_esports", ""),
       Worker("fetch_player_prop_odds", "") >>

snapshot_workers ==
    << Worker("build_projection_snapshots", "NBA"),
       Worker("build_prop_feed_snapshots", "NBA"),
       Worker("build_projection_snapshots", "Esports"),
       Worker("build_prop_feed_snapshots", "Esports") >>

Pipeline == workers \o snapshot_workers

\* a refresh that a failed worker ends (for comparison)
AfterWorkerAbortOnFailure(idx, outcome) ==
    IF outcome = "completed" THEN idx + 1 ELSE Len(Pipeline) + 1

\* run_refresh_worker returns to the loop whatever the outcome: a non-zero
\* return code is printed, TimeoutExpired and Exception are caught
AfterWorker(idx, outcome) == idx + 1

\* ------------------------------------------------------------ specification of the scheduler
\* the scheduled refreshes of one behaviour
MaxRefreshes == 2

SchedulerAt(pc, idx, history, refreshes) ==
    [op |-> "scheduler", pc |-> pc, idx |-> idx, history |-> history, refreshes |-> refreshes]

InitSchedule ==
    /\ clock = 0
    /\ odds = <<>>
    /\ statsTbl = <<>>
    /\ injTbl = <<>>
    /\ projTbl = <<>>
    /\ feedTbl = <<>>
    /\ runs = [r \in RunIds |-> IdleRun]
    /\ lastWrite = EmptyDict
    /\ call = SchedulerAt("idle", 0, <<>>, 0)

Scheduled(next) ==
    /\ call' = next
    /\ UNCHANGED <<clock, odds, statsTbl, injTbl, projTbl, feedTbl, runs, lastWrite>>

\* schedule.run_pending() calls refresh_all_data
RefreshAllData ==
    /\ call.pc = "idle"
    /\ call.refreshes < MaxRefreshes
    /\ Scheduled(SchedulerAt("loop", 1, <<>>, call.refreshes + 1))

\* run_refresh_worker starts the script with subprocess.run
RunWorker ==
    /\ call.pc = "loop"
    /\ call.idx <= Len(Pipeline)
    /\ Scheduled([call EXCEPT !.pc = "waiting",
                              !.history = Append(@, [event |-> "started",
                                                     worker |-> Pipeline[call.idx]])])

\* subprocess.run returns, or raises, and run_refresh_worker returns
WorkerEnds(outcome) ==
    /\ call.pc = "waiting"
    /\ Scheduled([call EXCEPT !.pc = "loop",
                              !.idx = AfterWorker(call.idx, outcome),
                              !.history = Append(@, [event |-> outcome,
                                                     worker |-> Pipeline[call.idx]])])

WorkerCompletes == WorkerEnds("completed")
WorkerFails == WorkerEnds("failed")
WorkerTimesOut == WorkerEnds("timed out")

\* the loops are through
RefreshComplete ==
    /\ call.pc = "loop"
    /\ call.idx > Len(Pipeline)
    /\ Scheduled([call EXCEPT !.pc = "idle"])

NextSchedule ==
    \/ RefreshAllData
    \/ RunWorker
    \/ WorkerCompletes
    \/ WorkerFails
    \/ WorkerTimesOut
    \/ RefreshComplete

SpecSchedule == InitSchedule /\ [][NextSchedule]_vars

\* ------------------------------------------------------------ the order of the builders
Sports == {"NBA", "Esports"}
Outcomes == {"completed", "failed", "timed out"}

\* the positions of the refresh's history at which a builder of the sport
\* was started, and at which it terminated
StartsOf(script, sport) ==
    {i \in 1..Len(call.history) :
         call.history[i] = [event |-> "started", worker |-> Worker(script, sport)]}
EndsOf(script, sport) ==
    {i \in 1..Len(call.history) :
         /\ call.history[i].event \in Outcomes
         /\ call.history[i].worker = Worker(script, sport)}

\* C29: in every scheduled refresh, for each sport the Prop Feed Snapshot
\* Builder is started only after the Projection Snapshot Builder for that
\* sport has terminated (successfully, with an error, or by the 5-minute
\* timeout), and it is started in all three cases: once the projection
\* builder has terminated, the feed builder is the next script started,
\* and a refresh that is complete has started it
C29_FeedAfterProjections ==
    call.op = "scheduler" =>
        \A sport \in Sports :
            /\ \A i \in StartsOf("build_prop_feed_snapshots", sport) :
                   \E j \in EndsOf("build_projection_snapshots", sport) : j < i
            /\ EndsOf("build_projection_snapshots", sport) # {} =>
                   \/ StartsOf("build_prop_feed_snapshots", sport) # {}
                   \/ /\ call.pc = "loop"
                      /\ call.idx <= Len(Pipeline)
                      /\ Pipeline[call.idx] = Worker("build_prop_feed_snapshots", sport)
            /\ (call.pc = "idle" /\ call.refreshes > 0) =>
                   StartsOf("build_prop_feed_snapshots", sport) # {}

\* the second refresh, in which the NBA projection builder timed out, the
\* Esports one failed, and both feed builders were started
C29_Witness ==
    /\ call.op = "scheduler"
    /\ call.refreshes = 2
    /\ \E i \in EndsOf("build_projection_snapshots", "NBA") :
           call.history[i].event = "timed out"
    /\ \E i \in EndsOf("build_projection_snapshots", "Esports") :
           call.history[i].event = "failed"
    /\ StartsOf("build_prop_feed_snapshots", "NBA") # {}
    /\ StartsOf("build_prop_feed_snapshots", "Esports") # {}

\* ------------------------------------------------------------ Dashboard pages
\* dashboard/data_loaders.py, load_prop_feed_snapshots with the store
\* available: the feed rows of the sport (and of the games, when given),
\* newest snapshot first
SnapshotAtGt(a, b) == StrGreater(a.snapshot_at, b.snapshot_at)

load_prop_feed_snapshots(table, sport, game_ids) ==
    OrderDesc(SelectSeq(table,
                        LAMBDA row :
                            /\ IF sport = "Esports" THEN row.sport \in EsportsSubSports
                               ELSE row.sport = sport
                            /\ game_ids = {} \/ row.game_id \in game_ids),
              SnapshotAtGt)

\* dashboard/line_shopping.py, lines 157-181: "Calculate our projection"
\* for the selected player, game and prop type
LineShoppingProjection(db, fail, selected_player, selected_game, prop_type) ==
    LET player_team == selected_player.team
        opponent == IF player_team = selected_game.home_team THEN selected_game.away_team
                    ELSE selected_game.home_team
        is_home == player_team = selected_game.home_team
        Shown(projection) ==
            IF projection.raised
            THEN [our_line |-> None, confidence |-> RZero, factors |-> EmptyDict]
            ELSE [our_line |-> projection.value.projected_line,
                  confidence |-> RMul(projection.value.confidence, RInt(100)),
                  factors |-> projection.value.factors]
    IN  Shown(calculate_projection(db, fail, selected_player.id, prop_type, opponent, is_home,
                                   selected_game.id, None))

\* ------------------------------------------------------------ specification of the dashboard
\* the store as the builders left it after a run over the season's log
SeasonDb ==
    [odds |-> CalcOdds, stats |-> SeasonStats, injuries |-> SeasonInjuries,
     games |-> GamesTable, players |-> PlayersTable, dfs |-> DfsTable]

StoredSnapshot ==
    ProjSnapshotRow(<<"p1", "g1", "points">>, CalcOdds[1], PlayersTable[1],
                    [opponent |-> "BOS", is_home |-> TRUE],
                    calculate_projection(SeasonDb, {}, "p1", "points", "BOS", TRUE, "g1",
                                         Some(Rat(45, 2))).value,
                    IsoFormat(2))

StoredFeedRow ==
    FeedRow(SeasonDb, {}, CalcOdds[1], PlayersTable[1], GamesTable[1],
            <<SeasonStats[2], SeasonStats[1]>>, Some(StoredSnapshot), IsoFormat(2))

\* the snapshot tables: before a build, after the projection build, after
\* both builds
SnapshotTables == {<<<<>>, <<>>>>, <<<<StoredSnapshot>>, <<>>>>, <<<<StoredSnapshot>>, <<StoredFeedRow>>>>}

DashboardLogs == {GameLog(n, vals, 8, FALSE) : n \in 0..MaxGames, vals \in {"flat", "rising"}}

PageArgs ==
    [fail : {{}, Lookups}, player_id : {"p1", "p2"}, prop_type : {"points", "rebounds"},
     sport : {"NBA", "Esports"}]

InitDashboard ==
    /\ clock = 3
    /\ odds \in {<<>>, CalcOdds}
    /\ statsTbl \in DashboardLogs
    /\ injTbl = SeasonInjuries
    /\ \E tables \in SnapshotTables : projTbl = tables[1] /\ feedTbl = tables[2]
    /\ runs = [r \in RunIds |-> IdleRun]
    /\ lastWrite = EmptyDict
    /\ \E args \in PageArgs : call = [op |-> "args", args |-> args]

\* the prop feed page loads its rows
PropFeedPage ==
    Returns("load_prop_feed_snapshots",
            load_prop_feed_snapshots(feedTbl, call.args.sport, {}))

\* the line shopping page shows "Our Projected Line"
LineShoppingPage ==
    Returns("render_line_shopping",
            LineShoppingProjection(Db, call.args.fail,
                                   CHOOSE pl \in SeqToSet(PlayersTable) :
                                       pl.id = call.args.player_id,
                                   GamesTable[1], call.args.prop_type))

NextDashboard == PropFeedPage \/ LineShoppingPage

SpecDashboard == InitDashboard /\ [][NextDashboard]_vars

\* ------------------------------------------------------------ the one-way data flow
\* the projected line the snapshot table holds for the player, the game and
\* the prop type, null when it holds none
SnapshotLine(player_id, game_id, prop_type) ==
    LET rows == {i \in 1..Len(projTbl) :
                     /\ projTbl[i].player_id = player_id
                     /\ projTbl[i].game_id = game_id
                     /\ projTbl[i].prop_type = prop_type}
    IN  IF rows = {} THEN None ELSE projTbl[CHOOSE i \in rows : TRUE].projected_line

\* C27: data flows one way: no presentation-layer action invokes the
\* Projection Builder; every projection shown by a UI page is read from the
\* snapshot tables written by the Snapshot Builders.
\* The line shopping page calls calculate_projection itself and shows its
\* result, whatever the snapshot table holds.
C27_PagesShowSnapshots ==
    /\ Returned("load_prop_feed_snapshots") =>
           \A i \in 1..Len(call.out) : call.out[i] \in SeqToSet(feedTbl)
    /\ Returned("render_line_shopping") =>
           call.out.our_line = SnapshotLine(call.args.player_id, "g1", call.args.prop_type)

\* ------------------------------------------------------------ Context Analyzer
\* utils/team_mapping.py, normalize_team_name, on the team names of the model
normalize_team_name(team_name) ==
    CASE team_name = "Los Angeles Lakers" -> "LAL"
      [] team_name = "Boston Celtics" -> "BOS"
      [] OTHER -> team_name

SplitDaysBack == 180
MinSplitGames == 3
KeyImpactPct == 10
UsageWindow == 10
UsageImpactPct == 5
MediumUsagePct == 15
SplitsWindow == 50
LineWindow == 20
ReturnGapDays == 10
SpreadLimit == 10
BlowoutSpread == 15

\* `fail` is the set of the store requests that raise in this call
ContextSteps ==
    {"player", "game", "injuries", "teammate_splits", "usage", "teammates", "matchup",
     "splits", "recent20", "last_game", "spread"}

RAbs(x) == <<Abs(x[1]), x[2]>>

\* [s[prop_type] for s in rows if s.get(prop_type) is not None]
ColumnValues(rows, prop_type) ==
    LET held == SelectSeq(rows, LAMBDA r : ~IsNone(r.vals[prop_type]))
    IN  [i \in 1..Len(held) |-> Val(held[i].vals[prop_type])]

\* sum(values) / len(values) if values else 0
MeanOrZero(values) == IF values = <<>> THEN RZero ELSE Rat(SumSeq(values, 1), Len(values))

\* the embedded players(id, name, team, position) of an injury row
JoinPlayer(db, player_id) ==
    LET found == SelectSeq(db.players, LAMBDA pl : pl.id = player_id)
    IN  IF found = <<>> THEN None
        ELSE Some([id |-> found[1].id, name |-> found[1].name, team |-> found[1].team,
                   position |-> found[1].position])

\* get_active_injuries: a row without its player makes the team filter raise
get_active_injuries_body(db, fail, team) ==
    LET active == SelectSeq(db.injuries, LAMBDA inj : inj.status = "active")
        injuries == [i \in 1..Len(active) |->
                        active[i] @@ [players |-> JoinPlayer(db, active[i].player_id)]]
    IN  IF "injuries" \in fail THEN Raise
        ELSE IF ~Truthy(team) THEN Ok(injuries)
        ELSE IF \E i \in 1..Len(injuries) : IsNone(injuries[i].players) THEN Raise
        ELSE Ok(SelectSeq(injuries, LAMBDA inj : Val(inj.players).team = team))

get_active_injuries(db, fail, team) == Except(get_active_injuries_body(db, fail, team), <<>>)

calculate_teammate_splits_body(db, fail, player_id, teammate_id, prop_type, today) ==
    LET cutoff_date == today - SplitDaysBack
        stats == SelectSeq(db.stats,
                           LAMBDA r : r.player_id = player_id /\ r.date >= cutoff_date)
        teammate_games == SelectSeq(db.stats,
                                    LAMBDA r : /\ r.player_id = teammate_id
                                               /\ r.date >= cutoff_date
                                               /\ r.minutes_played > 0)
        teammate_game_dates == {teammate_games[i].date : i \in 1..Len(teammate_games)}
        played == SelectSeq(stats, LAMBDA r : r.minutes_played # 0)
        with_stats == ColumnValues(SelectSeq(played, LAMBDA r : r.date \in teammate_game_dates),
                                   prop_type)
        without_stats ==
            ColumnValues(SelectSeq(played, LAMBDA r : r.date \notin teammate_game_dates),
                         prop_type)
        with_avg == MeanOrZero(with_stats)
        without_avg == MeanOrZero(without_stats)
        impact_pct == IF RLt(RZero, with_avg)
                      THEN RMul(RDiv(RSub(without_avg, with_avg), with_avg), RInt(100))
                      ELSE RZero
    IN  IF "teammate_splits" \in fail THEN Raise
        ELSE Ok(Some([with_teammate |-> [avg |-> Round1(with_avg), games |-> Len(with_stats),
                                         values |-> with_stats],
                      without_teammate |-> [avg |-> Round1(without_avg),
                                            games |-> Len(without_stats),
                                            values |-> without_stats],
                      impact_pct |-> Round1(impact_pct),
                      sample_size_sufficient |-> /\ Len(with_stats) >= MinSplitGames
                                                 /\ Len(without_stats) >= MinSplitGames]))

calculate_teammate_splits(db, fail, player_id, teammate_id, prop_type, today) ==
    Except(calculate_teammate_splits_body(db, fail, player_id, teammate_id, prop_type, today),
           None)

KeyPropTypes == <<"points", "assists", "rebounds">>

ImpactGt(a, b) == RLt(RAbs(b.impact_pct), RAbs(a.impact_pct))

identify_key_teammates_body(db, fail, player_id, player_team, today) ==
    LET teammates == SelectSeq(db.players,
                               LAMBDA pl : pl.team = player_team /\ pl.id # player_id)
        T == Len(teammates)
        Impact(prop_type, teammate, split) ==
            IF ~IsNone(split) /\ Val(split).sample_size_sufficient
                              /\ RLt(RInt(KeyImpactPct), RAbs(Val(split).impact_pct))
            THEN Some([teammate_id |-> teammate.id, teammate_name |-> teammate.name,
                       teammate_position |-> teammate.position, prop_type |-> prop_type,
                       impact_pct |-> Val(split).impact_pct,
                       with_avg |-> Val(split).with_teammate.avg,
                       without_avg |-> Val(split).without_teammate.avg,
                       sample_with |-> Val(split).with_teammate.games,
                       sample_without |-> Val(split).without_teammate.games])
            ELSE None
        Pair(prop_type, teammate) ==
            Impact(prop_type, teammate,
                   calculate_teammate_splits(db, fail, player_id, teammate.id, prop_type,
                                             today).value)
        tried == [k \in 1..(Len(KeyPropTypes) * T) |->
                     Pair(KeyPropTypes[((k - 1) \div T) + 1], teammates[((k - 1) % T) + 1])]
        found == SelectSeq(tried, LAMBDA o : ~IsNone(o))
        impacts == [k \in 1..Len(found) |-> Val(found[k])]
    IN  IF "teammates" \in fail THEN Raise ELSE Ok(OrderDesc(impacts, ImpactGt))

identify_key_teammates(db, fail, player_id, player_team, today) ==
    Except(identify_key_teammates_body(db, fail, player_id, player_team, today), <<>>)

\* the loop over the injured teammates: the total adjustment and the reasons
RECURSIVE UsageAdjustments(_, _, _, _, _, _, _, _)
UsageAdjustments(db, fail, player_id, prop_type, today, injured_teammates, i, acc) ==
    IF i > Len(injured_teammates) THEN acc
    ELSE LET injured == injured_teammates[i]
             split == calculate_teammate_splits(db, fail, player_id, Val(injured.players).id,
                                                prop_type, today).value
             Counted(adjustment) ==
                 IF RLt(RInt(UsageImpactPct), RAbs(adjustment))
                 THEN [total |-> RAdd(acc.total, adjustment),
                       reasons |-> Append(acc.reasons,
                                          [teammate_name |-> Val(injured.players).name,
                                           adjustment |-> RoundHalfEven(adjustment)])]
                 ELSE acc
         IN  UsageAdjustments(db, fail, player_id, prop_type, today, injured_teammates, i + 1,
                 IF IsNone(injured.players) \/ ~Truthy(Val(injured.players).id) THEN acc
                 ELSE IF ~IsNone(split) /\ Val(split).sample_size_sufficient
                 THEN Counted(Val(split).impact_pct)
                 ELSE acc)

predict_usage_adjustment_body(db, fail, player_id, prop_type, injured_teammates, today) ==
    LET recent_stats ==
            Take(OrderDesc(SelectSeq(db.stats,
                                     LAMBDA r : r.player_id = player_id /\ r.minutes_played > 0),
                           DateGt),
                 UsageWindow)
        baseline_avg == MeanOrZero(ColumnValues(recent_stats, prop_type))
        Predicted(adj) ==
            [baseline_avg |-> Round1(baseline_avg),
             adjusted_avg |-> Round1(RMul(baseline_avg,
                                          RAdd(ROne, RDiv(adj.total, RInt(100))))),
             adjustment_pct |-> Round1(adj.total),
             confidence |-> IF adj.total = RZero THEN "low"
                            ELSE IF RLt(RAbs(adj.total), RInt(MediumUsagePct)) THEN "medium"
                            ELSE "high",
             reasoning |-> IF adj.total = RZero
                           THEN <<"No significant historical impact from injuries">>
                           ELSE adj.reasons]
    IN  IF "usage" \in fail THEN Raise
        ELSE IF recent_stats = <<>> THEN Ok(None)
        ELSE Ok(Some(Predicted(UsageAdjustments(db, fail, player_id, prop_type, today,
                                                injured_teammates, 1,
                                                [total |-> RZero, reasons |-> <<>>]))))

predict_usage_adjustment(db, fail, player_id, prop_type, injured_teammates, today) ==
    Except(predict_usage_adjustment_body(db, fail, player_id, prop_type, injured_teammates,
                                         today),
           None)

get_matchup_history_body(db, fail, player_id, opponent_team) ==
    IF "matchup" \in fail THEN Raise
    ELSE Ok(OrderDesc(SelectSeq(db.stats,
                                LAMBDA r : r.player_id = player_id /\ r.opponent = opponent_team),
                      DateGt))

get_matchup_history(db, fail, player_id, opponent_team) ==
    Except(get_matchup_history_body(db, fail, player_id, opponent_team), <<>>)

NoSplits == [home |-> [avg |-> RZero, games |-> 0], away |-> [avg |-> RZero, games |-> 0]]

get_home_away_splits_body(db, fail, player_id, prop_type) ==
    LET stats == Take(OrderDesc(SelectSeq(db.stats,
                                          LAMBDA r : /\ r.player_id = player_id
                                                     /\ r.minutes_played > 0),
                                DateGt),
                      SplitsWindow)
        home_vals == ColumnValues(SelectSeq(stats, LAMBDA r : r.home), prop_type)
        away_vals == ColumnValues(SelectSeq(stats, LAMBDA r : ~r.home), prop_type)
    IN  IF "splits" \in fail THEN Raise
        ELSE Ok([home |-> [avg |-> Round1(MeanOrZero(home_vals)), games |-> Len(home_vals)],
                 away |-> [avg |-> Round1(MeanOrZero(away_vals)), games |-> Len(away_vals)]])

get_home_away_splits(db, fail, player_id, prop_type) ==
    Except(get_home_away_splits_body(db, fail, player_id, prop_type), NoSplits)

\* the opponent of the player's team in the game
ContextOpponent(player_team, game) ==
    IF normalize_team_name(player_team) = normalize_team_name(game.home_team)
       \/ player_team = game.home_team
    THEN game.away_team
    ELSE IF normalize_team_name(player_team) = normalize_team_name(game.away_team)
            \/ player_team = game.away_team
    THEN game.home_team
    ELSE IF game.home_team = player_team THEN game.away_team ELSE game.home_team

\* the summary part of the recent-20 line check, if the line is 20% off
LineContext(l20_stats, prop_type, line) ==
    LET vals == ColumnValues(l20_stats, prop_type)
        avg == MeanOrZero(vals)
    IN  IF vals = <<>> THEN None
        ELSE IF RLt(RMul(avg, Rat(6, 5)), line)
        THEN Some([kind |-> "Line inflated", line |-> line, avg |-> Round1(avg)])
        ELSE IF RLt(line, RMul(avg, Rat(4, 5)))
        THEN Some([kind |-> "Line discounted", line |-> line, avg |-> Round1(avg)])
        ELSE None

\* the summary part of the blowout check, if the spread is high
BlowoutContext(spread_odds, player_team, game) ==
    LET player_is_home == \/ normalize_team_name(player_team)
                                 = normalize_team_name(game.home_team)
                          \/ player_team = game.home_team
        labelled == SelectSeq(spread_odds,
                              LAMBDA o : o.market_label = IF player_is_home THEN game.home_team
                                                          ELSE game.away_team)
        direct == IF labelled = <<>> THEN None ELSE labelled[1].line
        team_spread == IF IsNone(direct) THEN spread_odds[1].line ELSE direct
        is_favorite == \/ player_is_home /\ RLt(Val(team_spread), RZero)
                       \/ ~player_is_home /\ RLt(RZero, Val(team_spread))
    IN  IF spread_odds = <<>> \/ IsNone(team_spread) THEN None
        ELSE IF RLe(RInt(BlowoutSpread), RAbs(Val(team_spread)))
        THEN Some([kind |-> IF is_favorite THEN "Favorites may rest in 4th quarter"
                            ELSE "Underdog may see extended minutes",
                   abs_spread |-> Round1(RAbs(Val(team_spread)))])
        ELSE None

\* get_game_context inside its try: the requests the function makes itself
\* (players, games, the last 20 games, the last game, the spreads) and the
\* matchup average have no handler of their own
get_game_context_body(db, fail, player_id, game_id, prop_type, line, today) ==
    LET player == SelectSeq(db.players, LAMBDA pl : pl.id = player_id)
        player_team == player[1].team
        games == SelectSeq(db.games, LAMBDA g : g.id = game_id)
        game == games[1]
        opponent == ContextOpponent(player_team, game)
        own_stats == OrderDesc(SelectSeq(db.stats, LAMBDA r : r.player_id = player_id), DateGt)
        OutPart(teammate_injuries) ==
            LET out == SelectSeq(teammate_injuries, LAMBDA inj : inj.severity = Some("out"))
            IN  IF out = <<>> THEN <<>>
                ELSE <<[kind |-> "OUT",
                        players |-> [i \in 1..Len(out) |-> Val(out[i].players).name]]>>
        UsagePart(usage_pred) ==
            IF ~IsNone(usage_pred) /\ Val(usage_pred).adjustment_pct # RZero
            THEN <<[kind |-> IF RLt(RZero, Val(usage_pred).adjustment_pct)
                             THEN "Projected increase" ELSE "Projected decrease",
                    pct |-> Abs(RoundHalfEven(Val(usage_pred).adjustment_pct)),
                    baseline_avg |-> Val(usage_pred).baseline_avg,
                    adjusted_avg |-> Val(usage_pred).adjusted_avg]>>
            ELSE <<>>
        MatchupPart(matchup_history) ==
            IF matchup_history = <<>> THEN <<>>
            ELSE <<[kind |-> "Avg vs", opponent |-> opponent,
                    avg |-> Round1(MeanOrZero(ColumnValues(matchup_history, prop_type))),
                    games |-> Len(matchup_history)]>>
        ReturnPart ==
            IF own_stats # <<>> /\ today - own_stats[1].date > ReturnGapDays
            THEN <<[kind |-> "Returning from rest", days |-> today - own_stats[1].date]>>
            ELSE <<>>
        spread_odds ==
            Take(OrderDesc(SelectSeq(db.spreads,
                                     LAMBDA o : o.game_id = game_id /\ o.market_type = "spreads"),
                           CreatedGt),
                 SpreadLimit)
        Context(teammate_injuries, usage_pred, matchup_history, line_context, parts) ==
            [injuries |-> teammate_injuries,
             usage_prediction |-> usage_pred,
             key_impacts |-> identify_key_teammates(db, fail, player_id, player_team,
                                                    today).value,
             context_summary |-> IF parts = <<>> THEN <<[kind |-> "No significant context"]>>
                                 ELSE parts,
             matchup_history |-> matchup_history,
             splits |-> get_home_away_splits(db, fail, player_id, prop_type).value,
             line_context |-> line_context]
        Built(teammate_injuries, usage_pred, matchup_history, line_context) ==
            Context(teammate_injuries, usage_pred, matchup_history, line_context,
                    OutPart(teammate_injuries) \o UsagePart(usage_pred)
                    \o MatchupPart(matchup_history) \o OptSeq(line_context) \o ReturnPart
                    \o IF game.sport = "NBA"
                       THEN OptSeq(BlowoutContext(spread_odds, player_team, game))
                       ELSE <<>>)
        Analysed(teammate_injuries) ==
            Built(teammate_injuries,
                  predict_usage_adjustment(db, fail, player_id, prop_type, teammate_injuries,
                                           today).value,
                  IF Truthy(opponent)
                  THEN get_matchup_history(db, fail, player_id, opponent).value
                  ELSE <<>>,
                  IF IsNone(line) THEN None
                  ELSE LineContext(Take(own_stats, LineWindow), prop_type, Val(line)))
    IN  IF "player" \in fail THEN Raise
        ELSE IF player = <<>> THEN Ok(None)
        ELSE IF "game" \in fail \/ games = <<>> THEN Raise          \* .single() without a row
        ELSE IF /\ Truthy(opponent)
                /\ \E r \in SeqToSet(get_matchup_history(db, fail, player_id, opponent).value) :
                       IsNone(r.vals[prop_type])
        THEN Raise                                                   \* sum() over a null
        ELSE IF ~IsNone(line) /\ "recent20" \in fail THEN Raise
        ELSE IF "last_game" \in fail THEN Raise
        ELSE IF game.sport = "NBA" /\ "spread" \in fail THEN Raise
        ELSE Ok(Some(Analysed(SelectSeq(get_active_injuries(db, fail, player_team).value,
                                        LAMBDA inj : Val(inj.players).id # player_id))))

\* except Exception: return None
get_game_context(db, fail, player_id, game_id, prop_type, line, today) ==
    Except(get_game_context_body(db, fail, player_id, game_id, prop_type, line, today),
           None).value

\* ------------------------------------------------------------ specification of the game context
ContextPlayers ==
    << PlayersTable[1],
       [id |-> "p3", name |-> "C. Center", team |-> "LAL", position |-> "C", sport |-> "NBA"],
       PlayersTable[2] >>

ContextGame(home_team, away_team, sport) ==
    [id |-> "g1", home_team |-> home_team, away_team |-> away_team, sport |-> sport]

\* the games table: the Lakers at home under either name, a game of two other
\* teams, a game of another sport, or no game at all
ContextGames ==
    { <<ContextGame("LAL", "BOS", "NBA")>>,
      <<ContextGame("Los Angeles Lakers", "Boston Celtics", "NBA")>>,
      <<ContextGame("NYK", "BOS", "NBA")>>,
      <<ContextGame("LAL", "BOS", "NFL")>>,
      <<>> }

ContextGameCounts == {0, 1, 8}
ContextPatterns == {"flat", "rising", "holes"}

\* the game log: p1 plays every day up to day 8, p3 every second day, and
\* p3 sits out day 2
ContextLog(n, vals) ==
    [j \in 1..n |-> GameLog(n, vals, 8, TRUE)[j] @@ [minutes_played |-> 30]]
    \o [k \in 1..4 |->
           StatRow("p3", 2 * k, "BOS", TRUE, Some(9), Some(11), Some(1))
           @@ [minutes_played |-> IF k = 1 THEN 0 ELSE 28]]

ContextInjuries ==
    { <<>>,
      << Injury("p3", "active", Some("out"), None, 8),
         Injury("p1", "active", Some("probable"), None, 8),
         Injury("p2", "active", Some("out"), None, 7) >> }

Spread(market_label, line, created_at) ==
    [game_id |-> "g1", market_type |-> "spreads", market_label |-> market_label,
     line |-> line, created_at |-> Some(IsoFormat(created_at))]

SpreadTables ==
    { <<>>,
      << Spread("LAL", Some(Rat(-33, 2)), 2), Spread("BOS", Some(Rat(33, 2)), 2) >>,
      << Spread("BOS", Some(Rat(-7, 2)), 1), Spread("Los Angeles Lakers", Some(RInt(15)), 2) >> }

ContextArgs ==
    [fail : {f \in SUBSET ContextSteps : Cardinality(f) <= 1},
     player_id : {"p1", "p2", "p9"}, prop_type : {"points", "rebounds"},
     line : {None, Some(RInt(5)), Some(Rat(45, 2))}, today : {9, 20},
     games : ContextGames, spreads : SpreadTables]

ContextDb ==
    [players |-> ContextPlayers, games |-> call.args.games, stats |-> statsTbl,
     injuries |-> injTbl, spreads |-> call.args.spreads]

InitContext ==
    /\ clock = 9
    /\ odds = <<>>
    /\ statsTbl \in {ContextLog(n, vals) : n \in ContextGameCounts, vals \in ContextPatterns}
    /\ injTbl \in ContextInjuries
    /\ projTbl = <<>>
    /\ feedTbl = <<>>
    /\ runs = [r \in RunIds |-> IdleRun]
    /\ lastWrite = EmptyDict
    /\ \E args \in ContextArgs : call = [op |-> "args", args |-> args]

GetGameContext ==
    Returns("get_game_context",
            get_game_context(ContextDb, call.args.fail, call.args.player_id, "g1",
                             call.args.prop_type, call.args.line, call.args.today))

NextContext == GetGameContext

SpecContext == InitContext /\ [][NextContext]_vars

\* ------------------------------------------------------------ the failure of one step
\* the context of the same call when no request fails
Undisturbed ==
    get_game_context(ContextDb, {}, call.args.player_id, "g1", call.args.prop_type,
                     call.args.line, call.args.today)

ContextFields ==
    {"injuries", "usage_prediction", "key_impacts", "context_summary", "matchup_history",
     "splits", "line_context"}

\* the fields a step's result goes into
FieldsOf(step) ==
    CASE step = "player" -> ContextFields
      [] step = "game" -> {"matchup_history", "context_summary"}
      [] step = "injuries" -> {"injuries", "usage_prediction", "context_summary"}
      [] step = "teammate_splits" -> {"usage_prediction", "key_impacts", "context_summary"}
      [] step = "usage" -> {"usage_prediction", "context_summary"}
      [] step = "teammates" -> {"key_impacts"}
      [] step = "matchup" -> {"matchup_history", "context_summary"}
      [] step = "splits" -> {"splits"}
      [] step = "recent20" -> {"line_context", "context_summary"}
      [] OTHER -> {"context_summary"}

\* C24: in get_game_context a failure of any single aggregation step degrades
\* only that step's field to unavailable: the call still returns a context
\* object carrying the fields of all the steps that succeeded.
\* A request the function makes itself (players, games, the last 20 games,
\* the last game, the spreads) has no handler but the outermost one, and its
\* failure makes the call return no context at all.
C24_FailureDegradesOnlyItsField ==
    Returned("get_game_context") /\ ~IsNone(Undisturbed) =>
        \A step \in call.args.fail :
            /\ ~IsNone(call.out)
            /\ \A field \in ContextFields \ FieldsOf(step) :
                   Val(call.out)[field] = Val(Undisturbed)[field]

====
